---- MODULE Spec2Model ----
(***************************************************************************)
(* Session core of the PiKVM Ansible collection:                           *)
(*   - PiKVMConnectionManager (the connection registry),                   *)
(*   - PiKVMTOTPManager (the TOTP code cache),                             *)
(* both from plugins/module_utils/pikvm_connection.py, together with the   *)
(* parts of PiKVMAPI (plugins/module_utils/pikvm_api.py) they call,        *)
(*                                                                         *)
(* and with retry_with_new_totp, the retry policy of the same file.        *)
(*                                                                         *)
(* The device is the environment: every HTTP request is answered by a      *)
(* status 200 ("ok"), another status ("fail") or a transport exception     *)
(* ("raise").                                                              *)
(***************************************************************************)
EXTENDS Integers, Sequences, FiniteSets, TLC

VARIABLES
    now,            \* the wall clock, time.time(), in whole seconds
    connections,    \* PiKVMConnectionManager._connections (insertion-ordered dict)
    last_used,      \* PiKVMConnectionManager._last_used
    op,             \* the last registry call: its arguments and what the caller observed
    HAS_PYOTP,      \* module flag: pyotp could be imported
    totp_objects,   \* PiKVMTOTPManager._totp_objects (the secrets that have one)
    totp_codes,     \* PiKVMTOTPManager._totp_codes
    code_expiry,    \* PiKVMTOTPManager._code_expiry
    top,            \* the last TOTP cache call and what the caller observed
    handed,         \* history: <<secret, window, code>> of refresh=False calls
    rp,             \* the call in progress through retry_with_new_totp's wrapper
    api,            \* a PiKVMAPI handle used directly, and the last call made on it
    msd,            \* the device: its image storage and its drive
    mod,            \* the run of the pikvm_msd module: its parameters and what it did
    sg,             \* the two singleton classes and the threads constructing them
    thr,            \* threads inside get_connection: their position and locals
    td,             \* threads inside the teardown methods: their position and locals
    upl,            \* the run of the pikvm_msd_upload module
    sh              \* the run of the become plugin's shell script

regVars  == <<connections, last_used, op>>
totpVars == <<HAS_PYOTP, totp_objects, totp_codes, code_expiry, top, handed>>
retryVars == <<rp>>
apiVars  == <<api>>
msdVars  == <<msd, mod>>
sgVars   == <<sg>>
thrVars  == <<thr>>
lateVars == <<td, upl, sh>>
auxVars  == <<apiVars, msdVars, sgVars, thrVars, lateVars>>
vars     == <<now, connections, last_used, op,
              HAS_PYOTP, totp_objects, totp_codes, code_expiry, top, handed, rp, api,
              msd, mod, sg, thr, td, upl, sh>>

(***************************************************************************)
(* Bounds of the model.                                                    *)
(***************************************************************************)
MaxTime == 1
MaxIdle == 1

(***************************************************************************)
(* Inputs.  The identities are chosen so that two of them differ in user   *)
(* and host and still format to the same key string.                       *)
(***************************************************************************)
Identities ==
    { [username |-> "a@b", hostname |-> "c",   use_https |-> TRUE,  secret |-> "",
       password |-> "password", validate_certs |-> FALSE],
      [username |-> "a",   hostname |-> "b@c", use_https |-> TRUE,  secret |-> "",
       password |-> "password", validate_certs |-> FALSE],
      [username |-> "a",   hostname |-> "c",   use_https |-> FALSE, secret |-> "",
       password |-> "password", validate_certs |-> FALSE] }

\* What the device answers to one request.
Resp == {"ok", "fail", "raise"}
\* The login POST may answer 200 without setting the auth_token cookie.
LoginResp == {"ok", "ok_nocookie", "fail", "raise"}

None == <<>>

\* A value handed back to the caller is of one Python type: a bool and an int
\* are kept apart from each other and from a handle and None.
PyBool(b) == <<"bool", b>>
PyInt(n) == <<"int", n>>

(***************************************************************************)
(* Python's insertion-ordered dict, as a sequence of [key, val] items with *)
(* pairwise different keys.                                                *)
(***************************************************************************)
DictKeys(d) == [i \in 1..Len(d) |-> d[i].key]

DictKeySet(d) == {d[i].key : i \in 1..Len(d)}

DictHas(d, k) == \E i \in 1..Len(d) : d[i].key = k

DictGet(d, k) == d[CHOOSE i \in 1..Len(d) : d[i].key = k].val

\* Mutant of DictSet: the item is added without replacing the one of its key.
DictSet_append(d, k, v) == Append(d, [key |-> k, val |-> v])

\* d[k] = v: an existing key keeps its place, a new key goes last.
DictSet(d, k, v) ==
    IF DictHas(d, k)
    THEN [i \in 1..Len(d) |-> IF d[i].key = k THEN [key |-> k, val |-> v] ELSE d[i]]
    ELSE Append(d, [key |-> k, val |-> v])

\* del d[k] / d.pop(k, None)
DictDel(d, k) == SelectSeq(d, LAMBDA e : e.key # k)

(***************************************************************************)
(* PiKVMConnectionManager._get_connection_key                              *)
(***************************************************************************)
BoolStr(b) == IF b THEN "True" ELSE "False"

_get_connection_key(hostname, username, use_https) ==
    username \o "@" \o hostname \o ":" \o BoolStr(use_https)

KeyOf(I) == _get_connection_key(I.hostname, I.username, I.use_https)

Keys == {KeyOf(I) : I \in Identities}

(***************************************************************************)
(* pyotp: a code is determined by the secret and the 30-second window of   *)
(* the clock reading.                                                      *)
(***************************************************************************)
Interval == 30

Window(t) == t \div Interval

\* totp.now() at clock reading t
TOTPNow(secret, t) == <<secret, Window(t)>>

(***************************************************************************)
(* PiKVMAPI: the handle.  id names the Python object: <<key, n>>, n        *)
(* flipped when a handle replaces the one pooled under the same key, so a  *)
(* new handle never has the id of a handle that is pooled when it is made. *)
(***************************************************************************)
NewId(conns, conn_key) ==
    IF DictHas(conns, conn_key)
    THEN <<conn_key, 1 - DictGet(conns, conn_key).id[2]>>
    ELSE <<conn_key, 0>>

\* secret=None.  Only the truth value of the secret is ever read, and the
\* empty string has the truth value of None.
NoSecret == ""

\* PiKVMAPI._get_auth_headers at clock reading t: the code comes from
\* pyotp.TOTP(secret).now(), and only when pyotp could be imported.
_get_auth_headers(username, password, secret, t) ==
    [user |-> username,
     passwd |-> IF secret # NoSecret /\ HAS_PYOTP
                THEN <<password, TOTPNow(secret, t)>>
                ELSE <<password>>]

\* PiKVMAPI.__init__ at clock reading t
PiKVMAPI(id, hostname, username, password, secret, use_https, validate_certs, t) ==
    [id |-> id, hostname |-> hostname, username |-> username, password |-> password,
     secret |-> secret, use_https |-> use_https, validate_certs |-> validate_certs,
     auth_token |-> FALSE,
     headers |-> _get_auth_headers(username, password, secret, t)]

Call(m, h, r) == [m |-> m, h |-> h.id, r |-> r]

\* PiKVMAPI.login, lines 158-166: the form it posts at clock reading t.  The
\* code comes from pyotp.TOTP(secret).now(), as in _get_auth_headers.
login_data(h, t) ==
    [user |-> h.username,
     passwd |-> IF h.secret # NoSecret /\ HAS_PYOTP
                THEN <<h.password, TOTPNow(h.secret, t)>>
                ELSE <<h.password>>]

\* PiKVMAPI.login with the device answering r
login(h, r) ==
    CASE r = "ok"          -> [h |-> [h EXCEPT !.auth_token = TRUE],  ret |-> TRUE,  exc |-> FALSE]
      [] r = "ok_nocookie" -> [h |-> [h EXCEPT !.auth_token = FALSE], ret |-> TRUE,  exc |-> FALSE]
      [] r = "fail"        -> [h |-> h, ret |-> FALSE, exc |-> FALSE]
      [] OTHER             -> [h |-> h, ret |-> FALSE, exc |-> TRUE]

\* PiKVMAPI.check_auth: r1 answers the request with the session token (made
\* only when there is a token), r2 the request with the header credentials.
check_auth(h, r1, r2) ==
    IF h.auth_token /\ r1 = "ok"
    THEN [h |-> h, ret |-> TRUE, exc |-> FALSE]
    ELSE IF h.auth_token /\ r1 = "raise"
    THEN [h |-> h, ret |-> FALSE, exc |-> TRUE]
    ELSE [h |-> [h EXCEPT !.auth_token = FALSE], ret |-> (r2 = "ok"), exc |-> (r2 = "raise")]

\* Mutant of logout: the token is kept when the device answers 200.
logout_keep(h, r) ==
    IF ~h.auth_token
    THEN [h |-> h, ret |-> TRUE, exc |-> FALSE]
    ELSE CASE r = "ok"   -> [h |-> h, ret |-> TRUE, exc |-> FALSE]
           [] r = "fail" -> [h |-> h, ret |-> FALSE, exc |-> FALSE]
           [] OTHER      -> [h |-> h, ret |-> FALSE, exc |-> TRUE]

\* PiKVMAPI.logout
logout(h, r) ==
    IF ~h.auth_token
    THEN [h |-> h, ret |-> TRUE, exc |-> FALSE]
    ELSE CASE r = "ok"   -> [h |-> [h EXCEPT !.auth_token = FALSE], ret |-> TRUE, exc |-> FALSE]
           [] r = "fail" -> [h |-> h, ret |-> FALSE, exc |-> FALSE]
           [] OTHER      -> [h |-> h, ret |-> FALSE, exc |-> TRUE]

\* What a call can do, over every answer of the device.
LoginOutcomes(h) == {login(h, r) : r \in LoginResp}

CheckAuthOutcomes(h) == {check_auth(h, r1, r2) : r1 \in Resp, r2 \in Resp}

LogoutOutcomes(h) == {logout(h, r) : r \in Resp}

\* How a call's outcome is written in op.calls.
Res(o) == IF o.exc THEN "raise" ELSE IF o.ret THEN "true" ELSE "false"

(***************************************************************************)
(* A plain dict whose order is never read (_last_used), as a function.     *)
(***************************************************************************)
FnSet(f, k, v) == [x \in DOMAIN f \cup {k} |-> IF x = k THEN v ELSE f[x]]

FnDel(f, k) == [x \in DOMAIN f \ {k} |-> f[x]]

\* f.get(k, default)
FnGet(f, k, default) == IF k \in DOMAIN f THEN f[k] ELSE default

(***************************************************************************)
(* PiKVMConnectionManager.  Every method is the set of its outcomes        *)
(*   [connections, last_used, ret, exc, calls]                             *)
(* over the answers of the device: the maps after the call, the value      *)
(* returned (None when it raised), whether it raised, and the PiKVMAPI     *)
(* calls it made, in order.                                                *)
(***************************************************************************)
Outcome(conns, lu, ret, exc, calls) ==
    [connections |-> conns, last_used |-> lu, ret |-> ret, exc |-> exc, calls |-> calls]

\* Mutant of create_connection: a login that returns False is raised as an error.
create_connection_raise(conns, lu, t0, t, I, conn_key, calls) ==
    LET conn == PiKVMAPI(NewId(conns, conn_key), I.hostname, I.username, I.password,
                         I.secret, I.use_https, I.validate_certs, t0)
        made == Append(calls, Call("PiKVMAPI", conn, "true"))
        Store(h, cs) == Outcome(DictSet(conns, conn_key, h), FnSet(lu, conn_key, t),
                                h.id, FALSE, cs)
        Raise(cs) == Outcome(conns, lu, None, TRUE, cs)
    IN  UNION { LET probed == Append(made, Call("check_auth", conn, Res(p)))
                IN  IF p.exc THEN {Raise(probed)}
                    ELSE IF p.ret THEN {Store(p.h, probed)}
                    ELSE { LET logged == Append(probed, Call("login", conn, Res(l)))
                           IN  IF l.exc \/ ~l.ret THEN Raise(logged) ELSE Store(l.h, logged)
                           : l \in LoginOutcomes(p.h) }
                : p \in CheckAuthOutcomes(conn) }

\* Mutant of create_connection: the new handle is stored and stamped before
\* it is probed.
create_connection_storefirst(conns, lu, t0, t, I, conn_key, calls) ==
    LET conn == PiKVMAPI(NewId(conns, conn_key), I.hostname, I.username, I.password,
                         I.secret, I.use_https, I.validate_certs, t0)
        made == Append(calls, Call("PiKVMAPI", conn, "true"))
        Store(h, cs) == Outcome(DictSet(conns, conn_key, h), FnSet(lu, conn_key, t),
                                h.id, FALSE, cs)
        Raise(h, cs) == Outcome(DictSet(conns, conn_key, h), FnSet(lu, conn_key, t),
                                None, TRUE, cs)
    IN  UNION { LET probed == Append(made, Call("check_auth", conn, Res(p)))
                IN  IF p.exc THEN {Raise(p.h, probed)}
                    ELSE IF p.ret THEN {Store(p.h, probed)}
                    ELSE { LET logged == Append(probed, Call("login", conn, Res(l)))
                           IN  IF l.exc THEN Raise(l.h, logged) ELSE Store(l.h, logged)
                           : l \in LoginOutcomes(p.h) }
                : p \in CheckAuthOutcomes(conn) }

\* get_connection, lines 97-115: "Create new connection".  t0 is the clock
\* read by PiKVMAPI.__init__ (line 98), t the clock read on line 113, after
\* the requests of check_auth and login.
create_connection(conns, lu, t0, t, I, conn_key, calls) ==
    LET conn == PiKVMAPI(NewId(conns, conn_key), I.hostname, I.username, I.password,
                         I.secret, I.use_https, I.validate_certs, t0)
        made == Append(calls, Call("PiKVMAPI", conn, "true"))
        Store(h, cs) == Outcome(DictSet(conns, conn_key, h), FnSet(lu, conn_key, t),
                                h.id, FALSE, cs)
        Raise(cs) == Outcome(conns, lu, None, TRUE, cs)
    IN  UNION { LET probed == Append(made, Call("check_auth", conn, Res(p)))
                IN  IF p.exc THEN {Raise(probed)}
                    ELSE IF p.ret THEN {Store(p.h, probed)}
                    ELSE { LET logged == Append(probed, Call("login", conn, Res(l)))
                           IN  IF l.exc THEN Raise(logged) ELSE Store(l.h, logged)
                           : l \in LoginOutcomes(p.h) }
                : p \in CheckAuthOutcomes(conn) }

\* Mutant of revalidate: the reused handle's key is not stamped (lines 86, 91).
revalidate_nostamp(conns, lu, t0, t, I, conn_key) ==
    LET conn == DictGet(conns, conn_key)
        Return(h, cs) == Outcome(DictSet(conns, conn_key, h), lu, h.id, FALSE, cs)
        Fall(h, cs) == create_connection(DictSet(conns, conn_key, h), lu, t0, t,
                                         I, conn_key, cs)
    IN  UNION { LET probed == <<Call("check_auth", conn, Res(p))>>
                IN  IF p.exc THEN Fall(p.h, probed)
                    ELSE IF p.ret THEN {Return(p.h, probed)}
                    ELSE UNION { LET logged == Append(probed, Call("login", conn, Res(l)))
                                 IN  IF ~l.exc /\ l.ret
                                     THEN {Return(l.h, logged)}
                                     ELSE Fall(l.h, logged)
                                 : l \in LoginOutcomes(p.h) }
                : p \in CheckAuthOutcomes(conn) }

\* Mutant of revalidate: a failed probe goes straight to the creation of a
\* new handle, without the re-login.
revalidate_nologin(conns, lu, t0, t, I, conn_key) ==
    LET conn == DictGet(conns, conn_key)
        Return(h, cs) == Outcome(DictSet(conns, conn_key, h), FnSet(lu, conn_key, t),
                                 h.id, FALSE, cs)
        Fall(h, cs) == create_connection(DictSet(conns, conn_key, h), lu, t0, t,
                                         I, conn_key, cs)
    IN  UNION { LET probed == <<Call("check_auth", conn, Res(p))>>
                IN  IF p.exc THEN Fall(p.h, probed)
                    ELSE IF p.ret THEN {Return(p.h, probed)}
                    ELSE Fall(p.h, probed)
                : p \in CheckAuthOutcomes(conn) }

\* get_connection, lines 80-95: the pooled handle is probed and, if the probe
\* reports not authenticated, logged in once; when neither succeeds, or one of
\* them raises, control falls through to the creation of a new handle.  t is
\* the clock read on line 86 or 91, or on line 113 after the fall-through.
revalidate(conns, lu, t0, t, I, conn_key) ==
    LET conn == DictGet(conns, conn_key)
        Return(h, cs) == Outcome(DictSet(conns, conn_key, h), FnSet(lu, conn_key, t),
                                 h.id, FALSE, cs)
        Fall(h, cs) == create_connection(DictSet(conns, conn_key, h), lu, t0, t,
                                         I, conn_key, cs)
    IN  UNION { LET probed == <<Call("check_auth", conn, Res(p))>>
                IN  IF p.exc THEN Fall(p.h, probed)
                    ELSE IF p.ret THEN {Return(p.h, probed)}
                    ELSE UNION { LET logged == Append(probed, Call("login", conn, Res(l)))
                                 IN  IF ~l.exc /\ l.ret
                                     THEN {Return(l.h, logged)}
                                     ELSE Fall(l.h, logged)
                                 : l \in LoginOutcomes(p.h) }
                : p \in CheckAuthOutcomes(conn) }

\* Mutant of get_connection: a pooled handle made with another password is
\* not reused.
get_connection_samepassword(conns, lu, t0, t, I, force_new) ==
    LET conn_key == _get_connection_key(I.hostname, I.username, I.use_https)
    IN  IF ~force_new /\ DictHas(conns, conn_key)
           /\ DictGet(conns, conn_key).password = I.password
        THEN revalidate(conns, lu, t0, t, I, conn_key)
        ELSE create_connection(conns, lu, t0, t, I, conn_key, <<>>)

\* get_connection
get_connection(conns, lu, t0, t, I, force_new) ==
    LET conn_key == _get_connection_key(I.hostname, I.username, I.use_https)
    IN  IF ~force_new /\ DictHas(conns, conn_key)
        THEN revalidate(conns, lu, t0, t, I, conn_key)
        ELSE create_connection(conns, lu, t0, t, I, conn_key, <<>>)

\* Mutant of close_connection: the key is built with the default use_https=True.
close_connection_https(conns, lu, I) ==
    LET conn_key == _get_connection_key(I.hostname, I.username, TRUE)
    IN  IF DictHas(conns, conn_key)
        THEN LET conn == DictGet(conns, conn_key)
             IN  { Outcome(DictDel(conns, conn_key), FnDel(lu, conn_key), PyBool(TRUE), FALSE,
                           <<Call("logout", conn, Res(o))>>)
                   : o \in LogoutOutcomes(conn) }
        ELSE {Outcome(conns, lu, PyBool(FALSE), FALSE, <<>>)}

\* close_connection
close_connection(conns, lu, I) ==
    LET conn_key == _get_connection_key(I.hostname, I.username, I.use_https)
    IN  IF DictHas(conns, conn_key)
        THEN LET conn == DictGet(conns, conn_key)
             IN  { Outcome(DictDel(conns, conn_key), FnDel(lu, conn_key), PyBool(TRUE), FALSE,
                           <<Call("logout", conn, Res(o))>>)
                   : o \in LogoutOutcomes(conn) }
        ELSE {Outcome(conns, lu, PyBool(FALSE), FALSE, <<>>)}

\* Mutant of close_all_loop: no try/except around logout, its exception ends the call.
RECURSIVE close_all_loop_propagate(_, _, _, _, _)
close_all_loop_propagate(conn_keys, conns, lu, count, calls) ==
    IF conn_keys = <<>>
    THEN {Outcome(conns, lu, PyInt(count), FALSE, calls)}
    ELSE LET conn_key == Head(conn_keys)
             conn == DictGet(conns, conn_key)
         IN  UNION { IF o.exc
                     THEN {Outcome(conns, lu, None, TRUE,
                                   Append(calls, Call("logout", conn, Res(o))))}
                     ELSE close_all_loop_propagate(Tail(conn_keys), DictDel(conns, conn_key),
                                    FnDel(lu, conn_key), count + 1,
                                    Append(calls, Call("logout", conn, Res(o))))
                     : o \in LogoutOutcomes(conn) }

\* close_all_connections: the for loop over the copied keys
RECURSIVE close_all_loop(_, _, _, _, _)
close_all_loop(conn_keys, conns, lu, count, calls) ==
    IF conn_keys = <<>>
    THEN {Outcome(conns, lu, PyInt(count), FALSE, calls)}
    ELSE LET conn_key == Head(conn_keys)
             conn == DictGet(conns, conn_key)
         IN  UNION { close_all_loop(Tail(conn_keys), DictDel(conns, conn_key),
                                    FnDel(lu, conn_key), count + 1,
                                    Append(calls, Call("logout", conn, Res(o))))
                     : o \in LogoutOutcomes(conn) }

close_all_connections(conns, lu) ==
    close_all_loop(DictKeys(conns), conns, lu, 0, <<>>)

\* Mutant of clean_loop: an entry idle for exactly max_idle_time is evicted too.
RECURSIVE clean_loop_ge(_, _, _, _, _, _, _)
clean_loop_ge(conn_keys, conns, lu, current_time, max_idle_time, count, calls) ==
    IF conn_keys = <<>>
    THEN {Outcome(conns, lu, PyInt(count), FALSE, calls)}
    ELSE LET conn_key == Head(conn_keys)
             lastUsed == FnGet(lu, conn_key, 0)
         IN  IF current_time - lastUsed >= max_idle_time
             THEN LET conn == DictGet(conns, conn_key)
                  IN  UNION { clean_loop_ge(Tail(conn_keys), DictDel(conns, conn_key),
                                         FnDel(lu, conn_key), current_time, max_idle_time,
                                         count + 1,
                                         Append(calls, Call("logout", conn, Res(o))))
                              : o \in LogoutOutcomes(conn) }
             ELSE clean_loop_ge(Tail(conn_keys), conns, lu, current_time, max_idle_time,
                             count, calls)

\* clean_unused_connections: current_time is read once, before the loop
RECURSIVE clean_loop(_, _, _, _, _, _, _)
clean_loop(conn_keys, conns, lu, current_time, max_idle_time, count, calls) ==
    IF conn_keys = <<>>
    THEN {Outcome(conns, lu, PyInt(count), FALSE, calls)}
    ELSE LET conn_key == Head(conn_keys)
             lastUsed == FnGet(lu, conn_key, 0)
         IN  IF current_time - lastUsed > max_idle_time
             THEN LET conn == DictGet(conns, conn_key)
                  IN  UNION { clean_loop(Tail(conn_keys), DictDel(conns, conn_key),
                                         FnDel(lu, conn_key), current_time, max_idle_time,
                                         count + 1,
                                         Append(calls, Call("logout", conn, Res(o))))
                              : o \in LogoutOutcomes(conn) }
             ELSE clean_loop(Tail(conn_keys), conns, lu, current_time, max_idle_time,
                             count, calls)

clean_unused_connections(conns, lu, current_time, max_idle_time) ==
    clean_loop(DictKeys(conns), conns, lu, current_time, max_idle_time, 0, <<>>)

\* get_total_connections
get_total_connections(conns) == Len(conns)

(***************************************************************************)
(* The registry as a state machine.  get_connection reads the clock when   *)
(* it constructs a handle and again, after the requests of check_auth and  *)
(* login, when it stamps the key: its step begins at the first reading and *)
(* takes d seconds.  The teardown methods read the clock at most once      *)
(* (clean_unused_connections on entry), so a call of one is a step taken   *)
(* at that instant; the time its requests take passes in Tick steps.       *)
(***************************************************************************)
Observed(name, I, arg, t, o) ==
    [name |-> name, ident |-> I, arg |-> arg, t |-> t,
     ret |-> o.ret, exc |-> o.exc, calls |-> o.calls]

RegInit ==
    /\ connections = <<>>
    /\ last_used = <<>>
    /\ op = [name |-> "init", ident |-> None, arg |-> None, t |-> 0,
             ret |-> None, exc |-> FALSE, calls |-> <<>>]

Tick ==
    /\ now < MaxTime
    /\ now' = now + 1
    /\ UNCHANGED <<regVars, totpVars, retryVars, auxVars>>

GetConnection(I, force_new, d) ==
    /\ \E o \in get_connection(connections, last_used, now, now + d, I, force_new) :
          /\ connections' = o.connections
          /\ last_used' = o.last_used
          /\ op' = Observed("get_connection", I, None, now + d, o)
    /\ now' = now + d
    /\ UNCHANGED <<totpVars, retryVars, auxVars>>

CloseConnection(I) ==
    /\ \E o \in close_connection(connections, last_used, I) :
          /\ connections' = o.connections
          /\ last_used' = o.last_used
          /\ op' = Observed("close_connection", I, None, 0, o)
    /\ UNCHANGED <<now, totpVars, retryVars, auxVars>>

CloseAllConnections ==
    /\ \E o \in close_all_connections(connections, last_used) :
          /\ connections' = o.connections
          /\ last_used' = o.last_used
          /\ op' = Observed("close_all_connections", None, None, 0, o)
    /\ UNCHANGED <<now, totpVars, retryVars, auxVars>>

CleanUnusedConnections(max_idle_time) ==
    /\ \E o \in clean_unused_connections(connections, last_used, now, max_idle_time) :
          /\ connections' = o.connections
          /\ last_used' = o.last_used
          /\ op' = Observed("clean_unused_connections", None, PyInt(max_idle_time), now, o)
    /\ UNCHANGED <<now, totpVars, retryVars, auxVars>>

(***************************************************************************)
(* PiKVMTOTPManager.                                                       *)
(*                                                                         *)
(* pyotp's code for a secret is a function of the secret and of the number *)
(* of the time window, int(time / interval); the model keeps that pair     *)
(* itself as the code.                                                     *)
(***************************************************************************)
SafetyBuffer == 5
TotpHorizon == 61
MaxDelay == 1

Secrets == {"S1", "S2"}

\* Mutant of _is_code_valid: no safety buffer.
_is_code_valid_nobuffer(expiry, t, secret) ==
    IF secret \notin DOMAIN expiry
    THEN FALSE
    ELSE t < expiry[secret]

\* _is_code_valid, with the clock reading t
_is_code_valid(expiry, t, secret) ==
    IF secret \notin DOMAIN expiry
    THEN FALSE
    ELSE t < (expiry[secret] - SafetyBuffer)

\* Mutant of get_totp_code: without the HAS_PYOTP test of lines 268-269.
get_totp_code_nocheck(has_pyotp, objs, codes, expiry, t0, t1, t2, secret, refresh) ==
    IF ~refresh /\ secret \in DOMAIN codes /\ _is_code_valid(expiry, t0, secret)
    THEN [totp_objects |-> objs, totp_codes |-> codes, code_expiry |-> expiry,
          ret |-> codes[secret], exc |-> FALSE, generated |-> FALSE]
    ELSE LET code == TOTPNow(secret, t1)
             exp == t2 + Interval - (t2 % Interval)
         IN  [totp_objects |-> objs \cup {secret},
              totp_codes |-> FnSet(codes, secret, code),
              code_expiry |-> FnSet(expiry, secret, exp),
              ret |-> code, exc |-> FALSE, generated |-> TRUE]

\* Mutant of get_totp_code: the expiry is the clock reading rounded up to a
\* multiple of the interval.
get_totp_code_ceil(has_pyotp, objs, codes, expiry, t0, t1, t2, secret, refresh) ==
    IF ~has_pyotp
    THEN [totp_objects |-> objs, totp_codes |-> codes, code_expiry |-> expiry,
          ret |-> None, exc |-> TRUE, generated |-> FALSE]
    ELSE IF ~refresh /\ secret \in DOMAIN codes /\ _is_code_valid(expiry, t0, secret)
    THEN [totp_objects |-> objs, totp_codes |-> codes, code_expiry |-> expiry,
          ret |-> codes[secret], exc |-> FALSE, generated |-> FALSE]
    ELSE LET code == TOTPNow(secret, t1)
             exp == ((t2 + Interval - 1) \div Interval) * Interval
         IN  [totp_objects |-> objs \cup {secret},
              totp_codes |-> FnSet(codes, secret, code),
              code_expiry |-> FnSet(expiry, secret, exp),
              ret |-> code, exc |-> FALSE, generated |-> TRUE]

\* get_totp_code.  t0 is the clock read by _is_code_valid, t1 the clock
\* totp.now() reads, t2 the clock read for the expiry: t0 <= t1 <= t2.
get_totp_code(has_pyotp, objs, codes, expiry, t0, t1, t2, secret, refresh) ==
    IF ~has_pyotp
    THEN [totp_objects |-> objs, totp_codes |-> codes, code_expiry |-> expiry,
          ret |-> None, exc |-> TRUE, generated |-> FALSE]
    ELSE IF ~refresh /\ secret \in DOMAIN codes /\ _is_code_valid(expiry, t0, secret)
    THEN [totp_objects |-> objs, totp_codes |-> codes, code_expiry |-> expiry,
          ret |-> codes[secret], exc |-> FALSE, generated |-> FALSE]
    ELSE LET code == TOTPNow(secret, t1)
             exp == t2 + Interval - (t2 % Interval)
         IN  [totp_objects |-> objs \cup {secret},
              totp_codes |-> FnSet(codes, secret, code),
              code_expiry |-> FnSet(expiry, secret, exp),
              ret |-> code, exc |-> FALSE, generated |-> TRUE]

\* Mutant of time_remaining: the difference is returned without the max(0, .).
time_remaining_noclamp(expiry, t, secret) ==
    IF secret \notin DOMAIN expiry
    THEN 0
    ELSE expiry[secret] - t

\* time_remaining, with the clock reading t
time_remaining(expiry, t, secret) ==
    IF secret \notin DOMAIN expiry
    THEN 0
    ELSE LET remaining == expiry[secret] - t
         IN  IF remaining > 0 THEN remaining ELSE 0

(***************************************************************************)
(* The TOTP cache as a state machine.  The clock may advance by d between  *)
(* totp.now() and the reading the expiry is computed from.  handed keeps,  *)
(* for the refresh=False calls that began and ended in the window of the   *)
(* latest call, the secret, that window and the code returned.             *)
(***************************************************************************)
TotpIdle ==
    /\ HAS_PYOTP = TRUE
    /\ totp_objects = {}
    /\ totp_codes = <<>>
    /\ code_expiry = <<>>
    /\ top = [name |-> "init"]
    /\ handed = {}

TotpInit ==
    /\ HAS_PYOTP \in BOOLEAN
    /\ totp_objects = {}
    /\ totp_codes = <<>>
    /\ code_expiry = <<>>
    /\ top = [name |-> "init"]
    /\ handed = {}

TotpTick ==
    /\ now < TotpHorizon
    /\ now' = now + 1
    /\ UNCHANGED <<regVars, totpVars, retryVars, auxVars>>

GetTotpCode(secret, refresh, d) ==
    LET o == get_totp_code(HAS_PYOTP, totp_objects, totp_codes, code_expiry,
                           now, now, now + d, secret, refresh)
        t3 == IF o.generated THEN now + d ELSE now
    IN  /\ t3 <= TotpHorizon
        /\ (d > 0 => o.generated)
        /\ totp_objects' = o.totp_objects
        /\ totp_codes' = o.totp_codes
        /\ code_expiry' = o.code_expiry
        /\ top' = [name |-> "get_totp_code", secret |-> secret, refresh |-> refresh,
                   ret |-> o.ret, exc |-> o.exc, generated |-> o.generated]
        /\ handed' = LET current == {x \in handed : x[2] = Window(t3)}
                     IN  IF ~refresh /\ ~o.exc /\ Window(now) = Window(t3)
                         THEN current \cup {<<secret, Window(now), o.ret>>}
                         ELSE current
        /\ now' = t3
        /\ UNCHANGED <<HAS_PYOTP, regVars, retryVars, auxVars>>

TimeRemaining(secret) ==
    /\ top' = [name |-> "time_remaining", secret |-> secret,
               ret |-> PyInt(time_remaining(code_expiry, now, secret))]
    /\ UNCHANGED <<now, HAS_PYOTP, totp_objects, totp_codes, code_expiry, handed, regVars, retryVars, auxVars>>

(***************************************************************************)
(* Requests through a handle and retry_with_new_totp.  A response is the   *)
(* status, the "ok" flag and the "error" text of its body, and why the     *)
(* device answered so (which the client never reads); status 0 stands for  *)
(* a request that raised a transport exception.                            *)
(***************************************************************************)
MaxRetries == 2

DeviceErrors == {"Unknown error", "TOTP might have expired"}

Responses ==
    {[status |-> 200, ok |-> TRUE, error |-> "", why |-> ""]}
    \cup {[status |-> st, ok |-> FALSE, error |-> e, why |-> ""]
          : st \in {200, 500}, e \in DeviceErrors}
    \cup {[status |-> 401, ok |-> FALSE, error |-> "", why |-> "no_credentials"]}
    \cup {[status |-> 403, ok |-> FALSE, error |-> "", why |-> w]
          : w \in {"wrong_password", "code_expired"}}
    \cup {[status |-> 0, ok |-> FALSE, error |-> "", why |-> "transport"]}

\* sub in s, for Python strings
Contains(sub, s) ==
    \E i \in 1..(Len(s) - Len(sub) + 1) : SubSeq(s, i, i + Len(sub) - 1) = sub

\* What a request method does: the handle after it, the value returned or the
\* exception raised (api: it is a PiKVMAPIError, msg: its message), and
\* whether self.headers was assigned.
Returned(h, ret) ==
    [h |-> h, ret |-> ret, exc |-> FALSE, api |-> FALSE, msg |-> "", assigned |-> FALSE]

Raised(h, msg, assigned) ==
    [h |-> h, ret |-> "", exc |-> TRUE, api |-> TRUE, msg |-> msg, assigned |-> assigned]

\* Mutant of _handle_response: a 403 is taken for an expired code whether or
\* not the handle has a secret.
_handle_response_always(h, t, response) ==
    IF response.status = 401
    THEN Raised(h, "Authentication required", FALSE)
    ELSE IF response.status = 403
    THEN Raised([h EXCEPT !.headers = _get_auth_headers(h.username, h.password, h.secret, t)],
                "Authentication failed - TOTP might have expired", TRUE)
    ELSE IF response.status # 200
    THEN Raised(h, "API request failed: " \o response.error, FALSE)
    ELSE IF ~response.ok
    THEN Raised(h, "API returned error: " \o response.error, FALSE)
    ELSE Returned(h, "data")

\* PiKVMAPI._handle_response (expected_status=200) at clock reading t
_handle_response(h, t, response) ==
    IF response.status = 401
    THEN Raised(h, "Authentication required", FALSE)
    ELSE IF response.status = 403
    THEN IF h.secret # NoSecret /\ HAS_PYOTP
         THEN Raised([h EXCEPT !.headers =
                                  _get_auth_headers(h.username, h.password, h.secret, t)],
                     "Authentication failed - TOTP might have expired", TRUE)
         ELSE Raised(h, "Authentication failed - incorrect credentials", FALSE)
    ELSE IF response.status # 200
    THEN Raised(h, "API request failed: " \o response.error, FALSE)
    ELSE IF ~response.ok
    THEN Raised(h, "API returned error: " \o response.error, FALSE)
    ELSE Returned(h, "data")

\* PiKVMAPI.get: the request, then _handle_response on its response
get(h, t, response) ==
    IF response.status = 0
    THEN [h |-> h, ret |-> "", exc |-> TRUE, api |-> FALSE, msg |-> "transport",
          assigned |-> FALSE]
    ELSE _handle_response(h, t, response)

\* PiKVMAPI.post (expected_status=200): the request, then _handle_response
\* on its response
post(h, t, response) ==
    IF response.status = 0
    THEN [h |-> h, ret |-> "", exc |-> TRUE, api |-> FALSE, msg |-> "transport",
          assigned |-> FALSE]
    ELSE _handle_response(h, t, response)

\* PiKVMAPI.get_system_log, lines 298-312: with follow the response object
\* is returned unexamined; otherwise _handle_response is called only on a
\* status other than 200, and a 200 returns the body as it is
get_system_log(h, t, follow, response) ==
    IF response.status = 0
    THEN [h |-> h, ret |-> "", exc |-> TRUE, api |-> FALSE, msg |-> "transport",
          assigned |-> FALSE]
    ELSE IF follow
    THEN Returned(h, "response")
    ELSE IF response.status # 200
    THEN _handle_response(h, t, response)
    ELSE Returned(h, "text")

\* PiKVMAPI.get_prometheus_metrics, lines 321-330
get_prometheus_metrics(h, t, response) ==
    IF response.status = 0
    THEN [h |-> h, ret |-> "", exc |-> TRUE, api |-> FALSE, msg |-> "transport",
          assigned |-> FALSE]
    ELSE IF response.status # 200
    THEN _handle_response(h, t, response)
    ELSE Returned(h, "text")

\* PiKVMAPI.get_streamer_snapshot, lines 599-609
get_streamer_snapshot(h, t, response) ==
    IF response.status = 0
    THEN [h |-> h, ret |-> "", exc |-> TRUE, api |-> FALSE, msg |-> "transport",
          assigned |-> FALSE]
    ELSE IF response.status # 200
    THEN _handle_response(h, t, response)
    ELSE Returned(h, "content")

\* Mutant of is_retryable: the budget test is retries <= max_retries.
is_retryable_le(o, retries, max_retries) ==
    o.api /\ Contains("TOTP might have expired", o.msg) /\ retries <= max_retries

\* Mutant of is_retryable: every authentication failure is retried.
is_retryable_any(o, retries, max_retries) ==
    o.api /\ Contains("Authentication failed", o.msg) /\ retries < max_retries

\* wrapper, line 354: the test that decides between a retry and raise
is_retryable(o, retries, max_retries) ==
    o.api /\ Contains("TOTP might have expired", o.msg) /\ retries < max_retries

\* Mutant of wrapper: the retry is made without the assignment of line 357.
wrapper_norefresh(r, t, response) ==
    LET o == get(r.conn, t, response)
        tried == [r EXCEPT !.conn = o.h,
                           !.invoked = @ + 1,
                           !.regens = @ + (IF o.assigned THEN 1 ELSE 0),
                           !.answers = Append(@, response),
                           !.msgs = Append(@, o.msg)]
    IN  IF ~o.exc
        THEN [tried EXCEPT !.pc = "done", !.ret = o.ret]
        ELSE IF is_retryable(o, r.retries, r.max_retries)
        THEN [tried EXCEPT !.retries = @ + 1]
        ELSE [tried EXCEPT !.pc = "failed", !.err = o.msg]

\* wrapper: one pass of its while loop, at clock reading t, the device
\* answering response.  r is the call in progress: the handle, whether the
\* handle is args[0] of the wrapped operation, the budget, and what happened
\* so far (retries; history: invoked, regens, refreshes, answers, msgs;
\* refreshes counts the assignments of line 357, regens those and the ones
\* _handle_response made).
wrapper(r, t, response) ==
    LET o == get(r.conn, t, response)
        tried == [r EXCEPT !.conn = o.h,
                           !.invoked = @ + 1,
                           !.regens = @ + (IF o.assigned THEN 1 ELSE 0),
                           !.answers = Append(@, response),
                           !.msgs = Append(@, o.msg)]
    IN  IF ~o.exc
        THEN [tried EXCEPT !.pc = "done", !.ret = o.ret]
        ELSE IF is_retryable(o, r.retries, r.max_retries)
        THEN IF r.self_first
             THEN [tried EXCEPT !.conn.headers =
                                    _get_auth_headers(o.h.username, o.h.password, o.h.secret, t),
                                !.regens = @ + 1,
                                !.refreshes = @ + 1,
                                !.retries = @ + 1]
             ELSE [tried EXCEPT !.retries = @ + 1]
        ELSE [tried EXCEPT !.pc = "failed", !.err = o.msg]

RetryIdle == rp = [pc |-> "idle"]

\* A wrapped operation is called on a handle made at this moment;
\* max_retries is the budget the decorator was given.
RetryStart(secret, max_retries, self_first) ==
    /\ rp.pc # "attempt"
    /\ rp' = [pc |-> "attempt",
              conn |-> PiKVMAPI(<<"a@c:True", 0>>, "c", "a", "password", secret, TRUE, FALSE, now),
              self_first |-> self_first, max_retries |-> max_retries,
              retries |-> 0, invoked |-> 0, regens |-> 0, refreshes |-> 0,
              answers |-> <<>>, msgs |-> <<>>, ret |-> "", err |-> ""]
    /\ UNCHANGED <<now, regVars, totpVars, auxVars>>

\* An expired code is a reason the device can have only for a request that
\* carried a code.
RetryAttempt(response) ==
    /\ rp.pc = "attempt"
    /\ response.why = "code_expired" => Len(rp.conn.headers.passwd) = 2
    /\ rp' = wrapper(rp, now, response)
    /\ UNCHANGED <<now, regVars, totpVars, auxVars>>

(***************************************************************************)
(* A PiKVMAPI handle used directly.  A request is its path and the         *)
(* credentials it carries in its headers and in its form; a request that   *)
(* relies on the session cookie carries neither.                           *)
(***************************************************************************)
MaxApiTime == 2

\* The clock reading at which the handle is first constructed: the last
\* second of a TOTP window.
ApiEpoch == Interval - 1

NoCredentials == [user |-> "", passwd |-> <<>>]

Request(path, headers, data) == [path |-> path, headers |-> headers, data |-> data]

\* PiKVMAPI.login, line 168: the request it makes at clock reading t
login_requests(h, t) == <<Request("/api/auth/login", NoCredentials, login_data(h, t))>>

\* PiKVMAPI.check_auth, lines 187-196: the requests it makes, r1 answering
\* the one made with the session token
check_auth_requests(h, r1) ==
    LET with_token == Request("/api/auth/check", NoCredentials, NoCredentials)
        with_headers == Request("/api/auth/check", h.headers, NoCredentials)
    IN  IF h.auth_token
        THEN IF r1 \in {"ok", "raise"} THEN <<with_token>> ELSE <<with_token, with_headers>>
        ELSE <<with_headers>>

\* PiKVMAPI.logout, lines 206-210: the requests it makes
logout_requests(h) ==
    IF ~h.auth_token THEN <<>> ELSE <<Request("/api/auth/logout", NoCredentials, NoCredentials)>>

\* PiKVMAPI.get, lines 232-236: the request it makes
get_requests(h) ==
    <<Request("/api/info", IF h.auth_token THEN NoCredentials ELSE h.headers, NoCredentials)>>

ApiCall(name, ret, exc, requests) ==
    [name |-> name, ret |-> ret, exc |-> exc, requests |-> requests, t |-> now]

\* What api.prev keeps of a call
Brief(call) == <<call.name, call.ret, Len(call.requests)>>

ApiMade(secret, t) ==
    [h |-> PiKVMAPI(<<"a@c:True", 0>>, "c", "a", "password", secret, TRUE, FALSE, t),
     call |-> [name |-> "PiKVMAPI", ret |-> None, exc |-> FALSE, requests |-> <<>>, t |-> t],
     prev |-> <<"", None, 0>>]

ApiIdle == api = ApiMade(NoSecret, 0)

ApiTick ==
    /\ now < ApiEpoch + MaxApiTime
    /\ now' = now + 1
    /\ UNCHANGED <<regVars, totpVars, retryVars, apiVars, msdVars, sgVars, thrVars, lateVars>>

\* A handle is constructed in place of the one in use.
ApiNew(secret) ==
    /\ api' = ApiMade(secret, now)
    /\ UNCHANGED <<now, regVars, totpVars, retryVars, msdVars, sgVars, thrVars, lateVars>>

ApiLogin(r) ==
    LET o == login(api.h, r)
    IN  /\ api' = [h |-> o.h,
                   call |-> ApiCall("login", IF o.exc THEN None ELSE PyBool(o.ret), o.exc,
                                    login_requests(api.h, now)),
                   prev |-> Brief(api.call)]
        /\ UNCHANGED <<now, regVars, totpVars, retryVars, msdVars, sgVars, thrVars, lateVars>>

ApiCheckAuth(r1, r2) ==
    LET o == check_auth(api.h, r1, r2)
    IN  /\ ~api.h.auth_token => r1 = "ok"
        /\ r1 \in {"ok", "raise"} /\ api.h.auth_token => r2 = "ok"
        /\ api' = [h |-> o.h,
                   call |-> ApiCall("check_auth", IF o.exc THEN None ELSE PyBool(o.ret), o.exc,
                                    check_auth_requests(api.h, r1)),
                   prev |-> Brief(api.call)]
        /\ UNCHANGED <<now, regVars, totpVars, retryVars, msdVars, sgVars, thrVars, lateVars>>

ApiLogout(r) ==
    LET o == logout(api.h, r)
    IN  /\ ~api.h.auth_token => r = "ok"
        /\ api' = [h |-> o.h,
                   call |-> ApiCall("logout", IF o.exc THEN None ELSE PyBool(o.ret), o.exc,
                                    logout_requests(api.h)),
                   prev |-> Brief(api.call)]
        /\ UNCHANGED <<now, regVars, totpVars, retryVars, msdVars, sgVars, thrVars, lateVars>>

ApiGet(response) ==
    LET o == get(api.h, now, response)
    IN  /\ response.why = "code_expired" => Len(api.h.headers.passwd) = 2
        /\ api' = [h |-> o.h,
                   call |-> ApiCall("get", IF o.exc THEN None ELSE <<"json", o.ret>>, o.exc,
                                    get_requests(api.h)),
                   prev |-> Brief(api.call)]
        /\ UNCHANGED <<now, regVars, totpVars, retryVars, msdVars, sgVars, thrVars, lateVars>>

\* PiKVMAPI.post, lines 257-261: the request it makes
post_requests(h) ==
    <<Request("/api/info", IF h.auth_token THEN NoCredentials ELSE h.headers, NoCredentials)>>

\* The request get_system_log, get_prometheus_metrics and
\* get_streamer_snapshot make: headers=self.headers if not self.auth_token
raw_requests(h, path) ==
    <<Request(path, IF h.auth_token THEN NoCredentials ELSE h.headers, NoCredentials)>>

ApiPost(response) ==
    LET o == post(api.h, now, response)
    IN  /\ response.why = "code_expired" => Len(api.h.headers.passwd) = 2
        /\ api' = [h |-> o.h,
                   call |-> ApiCall("post", IF o.exc THEN None ELSE <<"json", o.ret>>, o.exc,
                                    post_requests(api.h)),
                   prev |-> Brief(api.call)]
        /\ UNCHANGED <<now, regVars, totpVars, retryVars, msdVars, sgVars, thrVars, lateVars>>

ApiGetSystemLog(follow, response) ==
    LET o == get_system_log(api.h, now, follow, response)
    IN  /\ response.why = "code_expired" => Len(api.h.headers.passwd) = 2
        /\ api' = [h |-> o.h,
                   call |-> ApiCall("get_system_log",
                                    IF o.exc THEN None ELSE <<"raw", o.ret>>, o.exc,
                                    raw_requests(api.h, "/api/log")),
                   prev |-> Brief(api.call)]
        /\ UNCHANGED <<now, regVars, totpVars, retryVars, msdVars, sgVars, thrVars, lateVars>>

ApiGetPrometheusMetrics(response) ==
    LET o == get_prometheus_metrics(api.h, now, response)
    IN  /\ response.why = "code_expired" => Len(api.h.headers.passwd) = 2
        /\ api' = [h |-> o.h,
                   call |-> ApiCall("get_prometheus_metrics",
                                    IF o.exc THEN None ELSE <<"raw", o.ret>>, o.exc,
                                    raw_requests(api.h, "/api/export/prometheus/metrics")),
                   prev |-> Brief(api.call)]
        /\ UNCHANGED <<now, regVars, totpVars, retryVars, msdVars, sgVars, thrVars, lateVars>>

ApiGetStreamerSnapshot(response) ==
    LET o == get_streamer_snapshot(api.h, now, response)
    IN  /\ response.why = "code_expired" => Len(api.h.headers.passwd) = 2
        /\ api' = [h |-> o.h,
                   call |-> ApiCall("get_streamer_snapshot",
                                    IF o.exc THEN None ELSE <<"raw", o.ret>>, o.exc,
                                    raw_requests(api.h, "/api/streamer/snapshot")),
                   prev |-> Brief(api.call)]
        /\ UNCHANGED <<now, regVars, totpVars, retryVars, msdVars, sgVars, thrVars, lateVars>>

(***************************************************************************)
(* The pikvm_msd module.  The device is its image storage and its drive    *)
(* (image "" stands for no image selected); a device call that succeeds    *)
(* has the effect its name says.  One run of main() makes its device calls *)
(* in order; the run's failure says which of them raises, and what.        *)
(***************************************************************************)
ImageNames == {"a.iso", "b.iso"}

Drives ==
    {d \in [image : ImageNames \cup {""}, connected : BOOLEAN, cdrom : BOOLEAN, rw : BOOLEAN] :
        /\ d.connected => d.image # ""
        /\ d.cdrom => ~d.rw}

DeviceStates ==
    {dev \in [images : SUBSET ImageNames, drive : Drives] :
        dev.drive.image \in dev.images \cup {""}}

\* A call of a PiKVMAPI method, with the arguments it was given (rw is
\* "None", "True" or "False").
MsdCall(f, image_name, connected, cdrom, rw) ==
    [f |-> f, image_name |-> image_name, connected |-> connected, cdrom |-> cdrom, rw |-> rw]

get_msd_state == MsdCall("get_msd_state", "", FALSE, FALSE, "None")

connect_msd(connected) == MsdCall("connect_msd", "", connected, FALSE, "None")

set_msd_params(image_name, cdrom, rw) == MsdCall("set_msd_params", image_name, FALSE, cdrom, rw)

remove_msd_image(image_name) == MsdCall("remove_msd_image", image_name, FALSE, FALSE, "None")

upload_msd_image(image_name) == MsdCall("upload_msd_image", image_name, FALSE, FALSE, "None")

upload_msd_remote(image_name) == MsdCall("upload_msd_remote", image_name, FALSE, FALSE, "None")

reset_msd_call == MsdCall("reset_msd", "", FALSE, FALSE, "None")

StateChanging ==
    {"connect_msd", "set_msd_params", "remove_msd_image", "upload_msd_image",
     "upload_msd_remote", "reset_msd"}

\* The device after a call that succeeded.
Effect(dev, c) ==
    CASE c.f = "connect_msd" -> [dev EXCEPT !.drive.connected = c.connected]
      [] c.f = "set_msd_params" ->
            [dev EXCEPT !.drive.image = c.image_name,
                        !.drive.cdrom = c.cdrom,
                        !.drive.rw = IF c.cdrom THEN FALSE
                                     ELSE IF c.rw = "None" THEN @ ELSE c.rw = "True"]
      [] c.f = "remove_msd_image" ->
            [dev EXCEPT !.images = @ \ {c.image_name},
                        !.drive.image = IF @ = c.image_name THEN "" ELSE @]
      [] c.f \in {"upload_msd_image", "upload_msd_remote"} ->
            [dev EXCEPT !.images = @ \cup {c.image_name}]
      [] c.f = "reset_msd" ->
            [dev EXCEPT !.drive = [image |-> "", connected |-> FALSE, cdrom |-> TRUE, rw |-> FALSE]]
      [] OTHER -> dev

\* os.path.basename
basename(path) ==
    LET n == Len(path)
        slashes == {i \in 1..n : SubSeq(path, i, i) = "/"}
        last == IF slashes = {} THEN 0 ELSE CHOOSE i \in slashes : \A j \in slashes : j <= i
    IN  SubSeq(path, last + 1, n)

\* A run in progress: the device, the calls made, and, once it has ended,
\* the result handed to exit_json or fail_json.  slept is the number of
\* calls made when the run reached time.sleep(1) (0: it did not), and
\* slept_dev the device during that second.
Started(dev) ==
    [dev |-> dev, calls |-> <<>>, ended |-> FALSE,
     changed |-> FALSE, failed |-> FALSE, message |-> "", msg |-> "", diff |-> None,
     slept |-> 0, slept_dev |-> dev]

\* update_result(result, changed=...) with result['message'] set, then the
\* return to main and module.exit_json
Exit(r, changed, message) ==
    IF r.ended THEN r
    ELSE [r EXCEPT !.ended = TRUE, !.changed = changed, !.message = message]

\* exit_with_error
exit_with_error(r, msg) ==
    IF r.ended THEN r
    ELSE [r EXCEPT !.ended = TRUE, !.changed = FALSE, !.failed = TRUE, !.msg = msg]

MaxCalls == 5

\* What the device calls of a run do: the call at position at raises (0: no
\* call raises), a PiKVMAPIError (api) or another exception, with the text
\* str() gives of it.
NoFailure == [at |-> 0, api |-> TRUE, text |-> ""]

Failures ==
    {NoFailure}
    \cup {[at |-> n, api |-> TRUE, text |-> "API request failed: Unknown error"]
          : n \in 1..MaxCalls}
    \cup {[at |-> n, api |-> FALSE, text |-> "transport"] : n \in 1..MaxCalls}

\* execute_pikvm_module: the call, and exit_with_error with the message of
\* the except branch that caught what it raised
execute_pikvm_module(r, c, failure) ==
    IF r.ended THEN r
    ELSE IF Len(r.calls) + 1 = failure.at
    THEN exit_with_error([r EXCEPT !.calls = Append(@, c)],
                         (IF failure.api THEN "PiKVM API error: "
                          ELSE "Error executing PiKVM operation: ") \o failure.text)
    ELSE [r EXCEPT !.calls = Append(@, c), !.dev = Effect(@, c)]

\* Mutant of upload_image: the image is removed without the drive being
\* disconnected first.
upload_image_nodisconnect(dev, p, failure) ==
    IF ~p.src_isfile
    THEN exit_with_error(Started(dev),
                         "Source file " \o p.src \o " does not exist or is not a file")
    ELSE
    LET image_name == IF p.image_name = "" THEN basename(p.src) ELSE p.image_name
        r1 == execute_pikvm_module(Started(dev), get_msd_state, failure)
        image_exists == image_name \in dev.images
        is_connected == dev.drive.connected
        current_image == dev.drive.image
    IN  IF image_exists /\ ~p.force
        THEN Exit(r1, FALSE, "Image " \o image_name \o " already exists (use force=true to overwrite)")
        ELSE IF image_exists /\ p.force /\ p.check_mode
        THEN Exit(r1, TRUE, "Would remove existing image " \o image_name \o " and upload new version")
        ELSE
        LET r2 == r1
            r3 == IF image_exists /\ p.force
                  THEN execute_pikvm_module(r2, remove_msd_image(image_name), failure)
                  ELSE r2
        IN  IF p.check_mode
            THEN Exit(r3, TRUE, "Would upload new image " \o image_name)
            ELSE LET r4 == execute_pikvm_module(r3, upload_msd_image(image_name), failure)
                     r5 == execute_pikvm_module(r4, get_msd_state, failure)
                 IN  Exit(r5, TRUE,
                          "Image " \o image_name \o
                          (IF image_exists THEN " overwritten" ELSE " uploaded") \o " successfully")

\* upload_image
upload_image(dev, p, failure) ==
    IF ~p.src_isfile
    THEN exit_with_error(Started(dev),
                         "Source file " \o p.src \o " does not exist or is not a file")
    ELSE
    LET image_name == IF p.image_name = "" THEN basename(p.src) ELSE p.image_name
        r1 == execute_pikvm_module(Started(dev), get_msd_state, failure)
        image_exists == image_name \in dev.images
        is_connected == dev.drive.connected
        current_image == dev.drive.image
    IN  IF image_exists /\ ~p.force
        THEN Exit(r1, FALSE, "Image " \o image_name \o " already exists (use force=true to overwrite)")
        ELSE IF image_exists /\ p.force /\ p.check_mode
        THEN Exit(r1, TRUE, "Would remove existing image " \o image_name \o " and upload new version")
        ELSE
        LET r2 == IF image_exists /\ p.force /\ is_connected /\ current_image = image_name
                  THEN execute_pikvm_module(r1, connect_msd(FALSE), failure)
                  ELSE r1
            r3 == IF image_exists /\ p.force
                  THEN execute_pikvm_module(r2, remove_msd_image(image_name), failure)
                  ELSE r2
        IN  IF p.check_mode
            THEN Exit(r3, TRUE, "Would upload new image " \o image_name)
            ELSE LET r4 == execute_pikvm_module(r3, upload_msd_image(image_name), failure)
                     r5 == execute_pikvm_module(r4, get_msd_state, failure)
                 IN  Exit(r5, TRUE,
                          "Image " \o image_name \o
                          (IF image_exists THEN " overwritten" ELSE " uploaded") \o " successfully")

\* download_remote_image
download_remote_image(dev, p, failure) ==
    LET image_name == IF p.image_name = "" THEN basename(p.remote_src) ELSE p.image_name
        r1 == execute_pikvm_module(Started(dev), get_msd_state, failure)
        image_exists == image_name \in dev.images
        is_connected == dev.drive.connected
        current_image == dev.drive.image
    IN  IF image_exists /\ ~p.force
        THEN Exit(r1, FALSE, "Image " \o image_name \o " already exists (use force=true to overwrite)")
        ELSE IF image_exists /\ p.force /\ p.check_mode
        THEN Exit(r1, TRUE, "Would remove existing image " \o image_name \o " and download new version")
        ELSE
        LET r2 == IF image_exists /\ p.force /\ is_connected /\ current_image = image_name
                  THEN execute_pikvm_module(r1, connect_msd(FALSE), failure)
                  ELSE r1
            r3 == IF image_exists /\ p.force
                  THEN execute_pikvm_module(r2, remove_msd_image(image_name), failure)
                  ELSE r2
        IN  IF p.check_mode
            THEN Exit(r3, TRUE, "Would download new image " \o image_name \o " from " \o p.remote_src)
            ELSE LET r4 == execute_pikvm_module(r3, upload_msd_remote(image_name), failure)
                     r5 == execute_pikvm_module(r4, get_msd_state, failure)
                 IN  Exit(r5, TRUE,
                          "Image " \o image_name \o
                          (IF image_exists THEN " overwritten" ELSE " downloaded") \o
                          " successfully from " \o p.remote_src)

\* has_state_changed, on the drives of two states read from the device
has_state_changed(before, after) ==
    \/ before.drive.image # after.drive.image
    \/ before.drive.cdrom # after.drive.cdrom
    \/ before.drive.rw # after.drive.rw
    \/ before.drive.connected # after.drive.connected

\* Mutant of configure_and_connect_msd: the parameters are set while the
\* drive is still connected, and the disconnect follows.
configure_and_connect_msd_setfirst(dev, p, failure) ==
    LET image_name == p.image_name
        r1 == execute_pikvm_module(Started(dev), get_msd_state, failure)
        cur_image == dev.drive.image
        cur_cdrom == dev.drive.cdrom
        cur_rw == dev.drive.rw
        cur_connected == dev.drive.connected
        image_exists == image_name \in dev.images
        is_cdrom == p.media_type = "cdrom"
        config_change_needed ==
            \/ cur_image # image_name
            \/ cur_cdrom # is_cdrom
            \/ (~is_cdrom /\ cur_rw # ~p.read_only)
        already_connected_correctly == cur_connected /\ cur_image = image_name
        need_connect == ~cur_connected
    IN  IF ~image_exists
        THEN exit_with_error(r1, "Image " \o image_name \o " does not exist on the PiKVM")
        ELSE IF ~config_change_needed /\ already_connected_correctly
        THEN Exit(r1, FALSE, "MSD already configured and connected with image " \o image_name)
        ELSE IF p.check_mode
        THEN Exit(r1, TRUE,
                  IF config_change_needed /\ need_connect
                  THEN "Would configure MSD with image " \o image_name \o " and Would connect MSD"
                  ELSE IF config_change_needed
                  THEN "Would configure MSD with image " \o image_name
                  ELSE "Would connect MSD")
        ELSE
        LET r2 == IF config_change_needed
                  THEN execute_pikvm_module(
                           r1,
                           set_msd_params(image_name, is_cdrom,
                                          IF is_cdrom THEN "None" ELSE BoolStr(~p.read_only)),
                           failure)
                  ELSE r1
            r3d == IF config_change_needed /\ cur_connected
                   THEN execute_pikvm_module(r2, connect_msd(FALSE), failure)
                   ELSE r2
            r3 == IF config_change_needed /\ cur_connected /\ ~r3d.ended
                  THEN [r3d EXCEPT !.slept = Len(r3d.calls), !.slept_dev = r3d.dev]
                  ELSE r3d
            reconnect == need_connect \/ (config_change_needed /\ cur_connected)
            r4 == IF reconnect
                  THEN execute_pikvm_module(r3, connect_msd(TRUE), failure)
                  ELSE r3
            r5 == execute_pikvm_module(r4, get_msd_state, failure)
            changes_made == config_change_needed \/ reconnect
            actual_changes == has_state_changed(dev, r5.dev)
        IN  Exit(r5, changes_made /\ actual_changes,
                 IF config_change_needed /\ reconnect
                 THEN "MSD configured with image " \o image_name \o " and MSD connected"
                 ELSE IF config_change_needed
                 THEN "MSD configured with image " \o image_name
                 ELSE "MSD connected")

\* configure_and_connect_msd
configure_and_connect_msd(dev, p, failure) ==
    LET image_name == p.image_name
        r1 == execute_pikvm_module(Started(dev), get_msd_state, failure)
        cur_image == dev.drive.image
        cur_cdrom == dev.drive.cdrom
        cur_rw == dev.drive.rw
        cur_connected == dev.drive.connected
        image_exists == image_name \in dev.images
        is_cdrom == p.media_type = "cdrom"
        config_change_needed ==
            \/ cur_image # image_name
            \/ cur_cdrom # is_cdrom
            \/ (~is_cdrom /\ cur_rw # ~p.read_only)
        already_connected_correctly == cur_connected /\ cur_image = image_name
        need_connect == ~cur_connected
    IN  IF ~image_exists
        THEN exit_with_error(r1, "Image " \o image_name \o " does not exist on the PiKVM")
        ELSE IF ~config_change_needed /\ already_connected_correctly
        THEN Exit(r1, FALSE, "MSD already configured and connected with image " \o image_name)
        ELSE IF p.check_mode
        THEN Exit(r1, TRUE,
                  IF config_change_needed /\ need_connect
                  THEN "Would configure MSD with image " \o image_name \o " and Would connect MSD"
                  ELSE IF config_change_needed
                  THEN "Would configure MSD with image " \o image_name
                  ELSE "Would connect MSD")
        ELSE
        LET r2d == IF config_change_needed /\ cur_connected
                   THEN execute_pikvm_module(r1, connect_msd(FALSE), failure)
                   ELSE r1
            \* time.sleep(1), reached when the disconnect returned
            r2 == IF config_change_needed /\ cur_connected /\ ~r2d.ended
                  THEN [r2d EXCEPT !.slept = Len(r2d.calls), !.slept_dev = r2d.dev]
                  ELSE r2d
            r3 == IF config_change_needed
                  THEN execute_pikvm_module(
                           r2,
                           set_msd_params(image_name, is_cdrom,
                                          IF is_cdrom THEN "None" ELSE BoolStr(~p.read_only)),
                           failure)
                  ELSE r2
            reconnect == need_connect \/ (config_change_needed /\ cur_connected)
            r4 == IF reconnect
                  THEN execute_pikvm_module(r3, connect_msd(TRUE), failure)
                  ELSE r3
            r5 == execute_pikvm_module(r4, get_msd_state, failure)
            changes_made == config_change_needed \/ reconnect
            actual_changes == has_state_changed(dev, r5.dev)
        IN  Exit(r5, changes_made /\ actual_changes,
                 IF config_change_needed /\ reconnect
                 THEN "MSD configured with image " \o image_name \o " and MSD connected"
                 ELSE IF config_change_needed
                 THEN "MSD configured with image " \o image_name
                 ELSE "MSD connected")

\* disconnect_msd
disconnect_msd(dev, p, failure) ==
    LET r1 == execute_pikvm_module(Started(dev), get_msd_state, failure)
        cur_connected == dev.drive.connected
    IN  IF ~cur_connected
        THEN Exit(r1, FALSE, "MSD already disconnected")
        ELSE IF p.check_mode
        THEN Exit(r1, TRUE, "Would disconnect MSD")
        ELSE LET r2 == execute_pikvm_module(r1, connect_msd(FALSE), failure)
                 r3 == execute_pikvm_module(r2, get_msd_state, failure)
             IN  Exit(r3, TRUE, "MSD disconnected")

\* Mutant of remove_image: the check-mode return comes after the disconnect.
remove_image_late(dev, p, failure) ==
    LET image_name == p.image_name
        r1 == execute_pikvm_module(Started(dev), get_msd_state, failure)
        image_exists == image_name \in dev.images
        is_connected == dev.drive.connected
        current_image == dev.drive.image
    IN  IF ~image_exists
        THEN Exit(r1, FALSE, "Image " \o image_name \o " does not exist")
        ELSE
        LET r2 == IF is_connected /\ current_image = image_name
                  THEN execute_pikvm_module(r1, connect_msd(FALSE), failure)
                  ELSE r1
        IN  IF p.check_mode
            THEN Exit(r2, TRUE, "Would remove image " \o image_name)
            ELSE
            LET r3 == execute_pikvm_module(r2, remove_msd_image(image_name), failure)
                r4 == execute_pikvm_module(r3, get_msd_state, failure)
            IN  Exit(r4, TRUE, "Image " \o image_name \o " removed")

\* Mutant of remove_image: the image is removed without the drive being
\* disconnected first.
remove_image_nodisconnect(dev, p, failure) ==
    LET image_name == p.image_name
        r1 == execute_pikvm_module(Started(dev), get_msd_state, failure)
        image_exists == image_name \in dev.images
        is_connected == dev.drive.connected
        current_image == dev.drive.image
    IN  IF ~image_exists
        THEN Exit(r1, FALSE, "Image " \o image_name \o " does not exist")
        ELSE IF p.check_mode
        THEN Exit(r1, TRUE,
                  "Would remove image " \o image_name \o
                  (IF is_connected /\ current_image = image_name
                   THEN " (requires disconnecting MSD first)" ELSE ""))
        ELSE
        LET r3 == execute_pikvm_module(r1, remove_msd_image(image_name), failure)
            r4 == execute_pikvm_module(r3, get_msd_state, failure)
        IN  Exit(r4, TRUE, "Image " \o image_name \o " removed")

\* remove_image
remove_image(dev, p, failure) ==
    LET image_name == p.image_name
        r1 == execute_pikvm_module(Started(dev), get_msd_state, failure)
        image_exists == image_name \in dev.images
        is_connected == dev.drive.connected
        current_image == dev.drive.image
    IN  IF ~image_exists
        THEN Exit(r1, FALSE, "Image " \o image_name \o " does not exist")
        ELSE IF p.check_mode
        THEN Exit(r1, TRUE,
                  "Would remove image " \o image_name \o
                  (IF is_connected /\ current_image = image_name
                   THEN " (requires disconnecting MSD first)" ELSE ""))
        ELSE
        LET r2 == IF is_connected /\ current_image = image_name
                  THEN execute_pikvm_module(r1, connect_msd(FALSE), failure)
                  ELSE r1
            r3 == execute_pikvm_module(r2, remove_msd_image(image_name), failure)
            r4 == execute_pikvm_module(r3, get_msd_state, failure)
        IN  Exit(r4, TRUE, "Image " \o image_name \o " removed")

\* reset_msd
reset_msd(dev, p, failure) ==
    IF p.check_mode
    THEN Exit(Started(dev), TRUE, "Would reset MSD")
    ELSE LET r1 == execute_pikvm_module(Started(dev), reset_msd_call, failure)
             r2 == execute_pikvm_module(r1, get_msd_state, failure)
         IN  Exit(r2, TRUE, "MSD reset")

\* main, after get_pikvm_client returned a client
main(dev, p, failure) ==
    CASE p.state = "present" ->
            IF p.src # ""
            THEN upload_image(dev, p, failure)
            ELSE IF p.remote_src # ""
            THEN download_remote_image(dev, p, failure)
            ELSE exit_with_error(Started(dev),
                    "Either src or remote_src must be provided when state is 'present'")
      [] p.state = "connected" ->
            IF p.image_name = ""
            THEN exit_with_error(Started(dev), "image_name is required when state is 'connected'")
            ELSE configure_and_connect_msd(dev, p, failure)
      [] p.state = "disconnected" -> disconnect_msd(dev, p, failure)
      [] p.state = "absent" ->
            IF p.image_name = ""
            THEN exit_with_error(Started(dev), "image_name is required when state is 'absent'")
            ELSE remove_image(dev, p, failure)
      [] OTHER -> reset_msd(dev, p, failure)

\* The parameters AnsibleModule accepts: the choices of argument_spec,
\* required_if and mutually_exclusive of main.  A parameter that is not
\* read for the state is left at its default.
MsdParams ==
    {p \in [state : {"present", "connected", "disconnected", "absent", "reset"},
            image_name : ImageNames \cup {""},
            src : {"", "/iso/a.iso"}, src_isfile : BOOLEAN,
            remote_src : {"", "http://host/iso/a.iso"},
            media_type : {"cdrom", "flash"}, read_only : BOOLEAN,
            force : BOOLEAN, check_mode : BOOLEAN] :
        /\ ~(p.src # "" /\ p.remote_src # "")
        /\ p.src_isfile => p.src # ""
        /\ p.state = "present" => (p.image_name # "" \/ p.src # "" \/ p.remote_src # "")
        /\ p.state # "present" => (p.src = "" /\ p.remote_src = "" /\ ~p.force)
        /\ p.state # "connected" => (p.media_type = "cdrom" /\ p.read_only)
        /\ p.state \in {"disconnected", "reset"} => p.image_name = ""}

MsdIdle ==
    /\ msd = [images |-> {}, drive |-> [image |-> "", connected |-> FALSE,
                                         cdrom |-> TRUE, rw |-> FALSE]]
    /\ mod = [pc |-> "idle"]

\* The module is run once, against a device in any state.
MsdInit ==
    /\ msd \in DeviceStates
    /\ mod = [pc |-> "idle"]

\* ', '.join(names)
join(names) ==
    IF names = <<>> THEN ""
    ELSE IF Len(names) = 1 THEN names[1]
    ELSE names[1] \o ", " \o names[2]

\* The runtime of a module run and the device's answers to the requests of
\* get_pikvm_client: the secret parameter, HAS_REQUESTS and HAS_PIKVM_API of
\* pikvm_common, and the answers to the request of check_auth and to the one
\* of login (an answer that is never asked for is "ok").
ClientEnvs ==
    {e \in [secret : {NoSecret, "S1"}, has_requests : BOOLEAN, has_pikvm_api : BOOLEAN,
            check : Resp, login : LoginResp] :
        /\ (~e.has_requests \/ ~e.has_pikvm_api) => e.check = "ok"
        /\ e.check \in {"ok", "raise"} => e.login = "ok"}

\* validate_dependencies: the msg of its fail_json, "" when it returns
validate_dependencies(e) ==
    LET missing_deps ==
            (IF ~e.has_requests THEN <<"requests">> ELSE <<>>)
            \o (IF e.secret # NoSecret /\ ~HAS_PYOTP THEN <<"pyotp">> ELSE <<>>)
    IN  IF missing_deps # <<>>
        THEN "The following Python modules are required: " \o join(missing_deps)
        ELSE IF ~e.has_pikvm_api
        THEN "Failed to import the required PiKVM API module"
        ELSE ""

\* get_pikvm_client at clock reading t: the client it returns (ok), or the
\* msg of the fail_json it ends the run with, and the requests it made.  The
\* handle is new, so check_auth makes the request with the headers only.  An
\* exception of check_auth or login is a transport error, caught by
\* "except Exception"; neither raises PiKVMAPIError.
get_pikvm_client(e, t) ==
    LET v == validate_dependencies(e)
        client == PiKVMAPI(<<"a@c:True", 0>>, "c", "a", "password", e.secret, TRUE, FALSE, t)
        c == check_auth(client, "ok", e.check)
        l == login(c.h, e.login)
    IN  IF v # ""
        THEN [ok |-> FALSE, msg |-> v, client |-> None, calls |-> <<>>]
        ELSE IF c.exc
        THEN [ok |-> FALSE, msg |-> "Error connecting to PiKVM: transport",
              client |-> None, calls |-> <<"check_auth">>]
        ELSE IF c.ret
        THEN [ok |-> TRUE, msg |-> "", client |-> c.h, calls |-> <<"check_auth">>]
        ELSE IF l.exc
        THEN [ok |-> FALSE, msg |-> "Error connecting to PiKVM: transport",
              client |-> None, calls |-> <<"check_auth", "login">>]
        ELSE IF l.ret
        THEN [ok |-> TRUE, msg |-> "", client |-> l.h, calls |-> <<"check_auth", "login">>]
        ELSE [ok |-> FALSE, msg |-> "Failed to authenticate with PiKVM",
              client |-> None, calls |-> <<"check_auth", "login">>]

\* module.fail_json(msg=...)
fail_json(r, msg) ==
    IF r.ended THEN r
    ELSE [r EXCEPT !.ended = TRUE, !.failed = TRUE, !.msg = msg]

\* result['diff'] = get_diff(before, after); result['changed'] = True, when
\* a change is needed, and module.exit_json
ExitDiff(r, needs_change, before, after) ==
    IF r.ended THEN r
    ELSE IF needs_change
    THEN [r EXCEPT !.ended = TRUE, !.changed = TRUE,
                   !.diff = [before |-> before, after |-> after]]
    ELSE [r EXCEPT !.ended = TRUE]

\* dict.get(key, default)
Get(d, key, default) == IF key \in DOMAIN d THEN d[key] ELSE default

\* The 'result' of the device's answer to get_msd_state: the drive under
\* 'drive' and the images under 'storage'; a device may report 'connected'
\* and 'images' at the top level as well (top_level).
msd_state_result(dev, top_level) ==
    IF top_level
    THEN [drive |-> dev.drive, storage |-> [images |-> dev.images],
          connected |-> dev.drive.connected, images |-> dev.images]
    ELSE [drive |-> dev.drive, storage |-> [images |-> dev.images]]

\* has_diff, on two dicts
has_diff(before, after) == before # after

ConnectParams == [state : {"connected", "disconnected"}, check_mode : BOOLEAN]

\* main of pikvm_msd_connect, after get_pikvm_client returned a client
pikvm_msd_connect_main(dev, top_level, p, failure) ==
    LET r1 == execute_pikvm_module(Started(dev), get_msd_state, failure)
        current_state == msd_state_result(dev, top_level)
        is_connected == Get(current_state, "connected", FALSE)
        needs_change ==
            \/ p.state = "connected" /\ ~is_connected
            \/ p.state = "disconnected" /\ is_connected
        current_image == Get(current_state, "drive", [image |-> ""]).image
    IN  IF needs_change /\ current_image = ""
        THEN fail_json(r1, "No image is currently selected in the MSD. "
                           \o "Select an image before connecting/disconnecting.")
        ELSE
        LET r2 == IF needs_change /\ ~p.check_mode
                  THEN execute_pikvm_module(r1, connect_msd(p.state = "connected"), failure)
                  ELSE r1
            r3 == IF needs_change /\ ~p.check_mode
                  THEN execute_pikvm_module(r2, get_msd_state, failure)
                  ELSE r2
        IN  ExitDiff(r3, needs_change,
                     [connected |-> is_connected], [connected |-> p.state = "connected"])

ParamsParams == [image : ImageNames, cdrom : BOOLEAN, rw : BOOLEAN, check_mode : BOOLEAN]

\* The keys of the images dict, in the order the device lists them
ImageOrder == <<"a.iso", "b.iso">>

\* main of pikvm_msd_params, after get_pikvm_client returned a client
pikvm_msd_params_main(dev, top_level, p, failure) ==
    LET r1 == execute_pikvm_module(Started(dev), get_msd_state, failure)
        current_state == msd_state_result(dev, top_level)
        drive == Get(current_state, "drive", [image |-> ""])
        before == [image |-> drive.image,
                   cdrom |-> Get(drive, "cdrom", TRUE),
                   rw |-> Get(drive, "rw", FALSE)]
        after == [image |-> p.image, cdrom |-> p.cdrom,
                  rw |-> IF ~p.cdrom THEN p.rw ELSE FALSE]
        available_images == Get(current_state, "images", {})
        needs_change == has_diff(before, after)
    IN  IF p.image \notin available_images
        THEN fail_json(r1, "Image '" \o p.image
                           \o "' does not exist on the PiKVM. Available images: "
                           \o join(SelectSeq(ImageOrder, LAMBDA n : n \in available_images)))
        ELSE
        LET r2 == IF needs_change /\ ~p.check_mode
                  THEN execute_pikvm_module(
                           r1,
                           set_msd_params(p.image, p.cdrom,
                                          IF p.cdrom THEN "None" ELSE BoolStr(p.rw)),
                           failure)
                  ELSE r1
            r3 == IF needs_change /\ ~p.check_mode
                  THEN execute_pikvm_module(r2, get_msd_state, failure)
                  ELSE r2
        IN  ExitDiff(r3, needs_change, before, after)

\* What mod keeps of a run that ended: the module, its parameters, the
\* device before it, what get_pikvm_client did and the result.
Ended(module, p, before, g, failure, r) ==
    [pc |-> "ended", module |-> module, params |-> p, before |-> before,
     authenticated |-> g.ok, auth_calls |-> g.calls, fail_at |-> failure.at,
     calls |-> r.calls, changed |-> r.changed, failed |-> r.failed,
     message |-> r.message, msg |-> r.msg, diff |-> r.diff]

\* What the device's answers leave open once the runtime is given: an
\* answer that is never asked for is "ok", and no call fails that is not made.
Asked(e, g, failure, r) ==
    /\ validate_dependencies(e) # "" => e.check = "ok"
    /\ ~g.ok => failure = NoFailure
    /\ failure.at <= Len(r.calls)

\* One run of pikvm_msd: get_pikvm_client, then main, to its end or, when
\* configure_and_connect_msd has disconnected the drive, to its time.sleep(1):
\* the device stays as the disconnect left it while the run sleeps.
RunModule(p, e, failure) ==
    /\ mod.pc = "idle"
    /\ LET g == get_pikvm_client(e, now)
           r == IF g.ok THEN main(msd, p, failure) ELSE fail_json(Started(msd), g.msg)
       IN  /\ Asked(e, g, failure, r)
           /\ IF r.slept = 0
              THEN /\ msd' = r.dev
                   /\ mod' = Ended("pikvm_msd", p, msd, g, failure, r)
              ELSE /\ msd' = r.slept_dev
                   /\ mod' = [pc |-> "sleeping", module |-> "pikvm_msd", params |-> p,
                              before |-> msd, authenticated |-> g.ok,
                              auth_calls |-> g.calls, failure |-> failure,
                              calls |-> SubSeq(r.calls, 1, r.slept)]
    /\ UNCHANGED <<now, regVars, totpVars, retryVars, apiVars, sgVars, thrVars, lateVars>>

\* The rest of a run of pikvm_msd that slept: the second of time.sleep(1)
\* has passed, and configure_and_connect_msd goes on with set_msd_params,
\* connect_msd(True) and get_msd_state, to the exit of main.
WakeModule ==
    /\ mod.pc = "sleeping"
    /\ LET g == [ok |-> mod.authenticated, calls |-> mod.auth_calls]
           r == main(mod.before, mod.params, mod.failure)
       IN  /\ msd' = r.dev
           /\ mod' = Ended(mod.module, mod.params, mod.before, g, mod.failure, r)
    /\ now' = now + 1
    /\ UNCHANGED <<regVars, totpVars, retryVars, apiVars, sgVars, thrVars, lateVars>>

\* One run of pikvm_msd_connect: get_pikvm_client, then main.
RunConnect(p, top_level, e, failure) ==
    /\ mod.pc = "idle"
    /\ LET g == get_pikvm_client(e, now)
           r == IF g.ok THEN pikvm_msd_connect_main(msd, top_level, p, failure)
                ELSE fail_json(Started(msd), g.msg)
       IN  /\ Asked(e, g, failure, r)
           /\ ~g.ok => ~top_level
           /\ msd' = r.dev
           /\ mod' = Ended("pikvm_msd_connect", p, msd, g, failure, r)
    /\ UNCHANGED <<now, regVars, totpVars, retryVars, apiVars, sgVars, thrVars, lateVars>>

\* One run of pikvm_msd_params: get_pikvm_client, then main.
RunParams(p, top_level, e, failure) ==
    /\ mod.pc = "idle"
    /\ LET g == get_pikvm_client(e, now)
           r == IF g.ok THEN pikvm_msd_params_main(msd, top_level, p, failure)
                ELSE fail_json(Started(msd), g.msg)
       IN  /\ Asked(e, g, failure, r)
           /\ ~g.ok => ~top_level
           /\ msd' = r.dev
           /\ mod' = Ended("pikvm_msd_params", p, msd, g, failure, r)
    /\ UNCHANGED <<now, regVars, totpVars, retryVars, apiVars, sgVars, thrVars, lateVars>>

(***************************************************************************)
(* The singletons.  PiKVMConnectionManager and PiKVMTOTPManager have the   *)
(* same __new__ and __init__; sg keeps, for each class, _instance (0 for   *)
(* None, otherwise the number of the object), _initialized, the holder of  *)
(* _lock, whether its maps hold an entry, and as history the number of     *)
(* objects created and of times __init__ assigned the maps of an object    *)
(* whose maps had been assigned before.  The module constructs both at     *)
(* import (lines 366-367), in the importing thread; the import lock lets   *)
(* no other thread reach the classes before that (imported counts the      *)
(* constructions of the import that have returned).  A thread is idle or   *)
(* inside one constructor call.                                            *)
(***************************************************************************)
Classes == {"PiKVMConnectionManager", "PiKVMTOTPManager"}

Threads == {"t1", "t2"}

SgThreads == Threads \cup {"t3"}

\* The thread that imports pikvm_connection, and the constructions of
\* lines 366 and 367 in their order.
Importer == "t1"

ImportOrder == <<"PiKVMConnectionManager", "PiKVMTOTPManager">>

Imported == sg.imported = Len(ImportOrder)

NoThread == ""

\* Mutant of init_returns: __init__ without the test of _initialized.
init_returns_never(initialized) == FALSE

\* __init__, lines 44-45 and 246-247: the early return
init_returns(initialized) == initialized

\* __new__, lines 37 and 239: the test that guards the creation
new_creates(instance) == instance = 0

SgIdle ==
    sg = [imported |-> 0,
          instance |-> [c \in Classes |-> 0],
          initialized |-> [c \in Classes |-> FALSE],
          lock |-> [c \in Classes |-> NoThread],
          maps |-> [c \in Classes |-> "unassigned"],
          created |-> [c \in Classes |-> 0],
          resets |-> [c \in Classes |-> 0],
          pc |-> [t \in SgThreads |-> "idle"],
          cls |-> [t \in SgThreads |-> ""]]

\* cls(): __new__ is entered and _lock acquired
NewEnter(t, c) ==
    /\ sg.pc[t] = "idle"
    /\ ~Imported => t = Importer /\ c = ImportOrder[sg.imported + 1]
    /\ sg.lock[c] = NoThread
    /\ sg' = [sg EXCEPT !.pc[t] = "new", !.cls[t] = c, !.lock[c] = t]
    /\ UNCHANGED <<now, regVars, totpVars, retryVars, apiVars, msdVars, thrVars, lateVars>>

\* __new__: the body under the lock, the release and the return
NewBody(t) ==
    LET c == sg.cls[t]
    IN  /\ sg.pc[t] = "new"
        /\ sg' = IF new_creates(sg.instance[c])
                 THEN [sg EXCEPT !.instance[c] = sg.created[c] + 1,
                                 !.created[c] = @ + 1,
                                 !.initialized[c] = FALSE,
                                 !.maps[c] = "unassigned",
                                 !.lock[c] = NoThread,
                                 !.pc[t] = "init"]
                 ELSE [sg EXCEPT !.lock[c] = NoThread, !.pc[t] = "init"]
        /\ UNCHANGED <<now, regVars, totpVars, retryVars, apiVars, msdVars, thrVars, lateVars>>

\* __init__: the test of _initialized
InitTest(t) ==
    LET c == sg.cls[t]
    IN  /\ sg.pc[t] = "init"
        /\ sg' = IF init_returns(sg.initialized[c])
                 THEN [sg EXCEPT !.pc[t] = "idle", !.cls[t] = "",
                                 !.imported = IF Imported THEN @ ELSE @ + 1]
                 ELSE [sg EXCEPT !.pc[t] = "assign"]
        /\ UNCHANGED <<now, regVars, totpVars, retryVars, apiVars, msdVars, thrVars, lateVars>>

\* __init__: the maps are assigned empty dicts
InitAssign(t) ==
    LET c == sg.cls[t]
    IN  /\ sg.pc[t] = "assign"
        /\ sg' = [sg EXCEPT !.maps[c] = "empty",
                            !.resets[c] = IF sg.maps[c] = "unassigned" THEN @ ELSE 1,
                            !.pc[t] = "flag"]
        /\ UNCHANGED <<now, regVars, totpVars, retryVars, apiVars, msdVars, thrVars, lateVars>>

\* __init__: _initialized = True
InitFlag(t) ==
    LET c == sg.cls[t]
    IN  /\ sg.pc[t] = "flag"
        /\ sg' = [sg EXCEPT !.initialized[c] = TRUE, !.pc[t] = "idle", !.cls[t] = "",
                            !.imported = IF Imported THEN @ ELSE @ + 1]
        /\ UNCHANGED <<now, regVars, totpVars, retryVars, apiVars, msdVars, thrVars, lateVars>>

\* A method of the instance stores an entry in its maps, or removes the last.
UseInstance(c, content) ==
    /\ Imported /\ sg.maps[c] # "unassigned" /\ sg.maps[c] # content
    /\ sg' = [sg EXCEPT !.maps[c] = content]
    /\ UNCHANGED <<now, regVars, totpVars, retryVars, apiVars, msdVars, thrVars, lateVars>>

(***************************************************************************)
(* get_connection taken by several threads.  It holds no lock, and every   *)
(* request to the device (those of check_auth, lines 188 and 196 of        *)
(* pikvm_api.py, and the one of login, line 168) is a place where another  *)
(* thread runs: a thread takes the statements between two requests in one  *)
(* step, a step that begins with the answer to the request it was waiting  *)
(* for.  A handle is an object: what check_auth and login assign to it is  *)
(* seen through the pool and through every thread that holds it.  thr      *)
(* keeps each thread's position and locals, the number of handles          *)
(* constructed so far, which names a new handle, and the number of logins  *)
(* that succeeded.                                                         *)
(***************************************************************************)
MaxStarted == 3

ThreadIdentity == [username |-> "a", hostname |-> "c", use_https |-> TRUE, secret |-> "",
                   password |-> "password", validate_certs |-> FALSE]

NoHandle == PiKVMAPI(<<"", 0>>, "", "", "password", NoSecret, TRUE, FALSE, 0)

ThrLocal(pc, force_new, conn, pooled_at_entry, ret, exc) ==
    [pc |-> pc, force_new |-> force_new, conn |-> conn,
     pooled_at_entry |-> pooled_at_entry, ret |-> ret, exc |-> exc]

ThrIdle ==
    thr = [started |-> 0, made |-> 0, logins |-> 0,
           local |-> [t \in Threads |-> ThrLocal("idle", FALSE, NoHandle, FALSE, None, FALSE)]]

\* The pool once the object h has been assigned to
AssignPooled(conns, h) ==
    [i \in 1..Len(conns) |->
        IF conns[i].val.id = h.id THEN [conns[i] EXCEPT !.val = h] ELSE conns[i]]

\* The threads' locals once the object h has been assigned to
AssignLocals(local, h) ==
    [u \in Threads |->
        IF local[u].conn.id = h.id THEN [local[u] EXCEPT !.conn = h] ELSE local[u]]

\* get_connection, lines 98-108: a handle is constructed and its check_auth
\* sends the request with the headers (a new handle has no token)
construct(th, t, force_new, pooled_at_entry) ==
    LET conn_key == KeyOf(ThreadIdentity)
        conn == PiKVMAPI(<<conn_key, th.made>>, ThreadIdentity.hostname,
                         ThreadIdentity.username, ThreadIdentity.password,
                         ThreadIdentity.secret, ThreadIdentity.use_https,
                         ThreadIdentity.validate_certs, now)
    IN  [th EXCEPT !.made = @ + 1,
                   !.local[t] = ThrLocal("new_headers", force_new, conn, pooled_at_entry,
                                         None, FALSE)]

\* get_connection, lines 76-84: the key is looked up; the pooled handle's
\* check_auth sends its first request, or a handle is constructed
GcLookup(t, force_new) ==
    LET conn_key == KeyOf(ThreadIdentity)
        pooled == DictHas(connections, conn_key)
        conn == DictGet(connections, conn_key)
    IN  /\ thr.local[t].pc \in {"idle", "done"}
        /\ thr.started < MaxStarted
        /\ thr' = IF ~force_new /\ pooled
                  THEN [thr EXCEPT
                          !.started = @ + 1,
                          !.local[t] = ThrLocal(IF conn.auth_token THEN "check_token"
                                                ELSE "check_headers",
                                                force_new, conn, pooled, None, FALSE)]
                  ELSE construct([thr EXCEPT !.started = @ + 1], t, force_new, pooled)
        /\ UNCHANGED <<now, connections, last_used, op, totpVars, retryVars, apiVars, msdVars, sgVars, lateVars>>

\* check_auth of the pooled handle, lines 188-193 of pikvm_api.py: the
\* answer to the request made with the session token
GcCheckToken(t, r) ==
    LET conn_key == KeyOf(ThreadIdentity)
        l == thr.local[t]
        conn == l.conn
        cleared == [conn EXCEPT !.auth_token = FALSE]
    IN  /\ l.pc = "check_token"
        /\ CASE r = "ok" ->
                  /\ connections' = connections
                  /\ last_used' = FnSet(last_used, conn_key, now)
                  /\ thr' = [thr EXCEPT !.local[t].pc = "done", !.local[t].ret = conn.id]
             [] r = "raise" ->
                  /\ UNCHANGED <<connections, last_used>>
                  /\ thr' = construct(thr, t, l.force_new, l.pooled_at_entry)
             [] OTHER ->
                  /\ connections' = AssignPooled(connections, cleared)
                  /\ last_used' = last_used
                  /\ thr' = [thr EXCEPT !.local = [AssignLocals(@, cleared)
                                                      EXCEPT ![t].pc = "check_headers"]]
        /\ UNCHANGED <<now, op, totpVars, retryVars, apiVars, msdVars, sgVars, lateVars>>

\* check_auth of the pooled handle, lines 196-197 of pikvm_api.py: the
\* answer to the request made with the headers; on a refusal login sends
\* its request (get_connection, line 90)
GcCheckHeaders(t, r) ==
    LET conn_key == KeyOf(ThreadIdentity)
        l == thr.local[t]
    IN  /\ l.pc = "check_headers"
        /\ CASE r = "ok" ->
                  /\ last_used' = FnSet(last_used, conn_key, now)
                  /\ thr' = [thr EXCEPT !.local[t].pc = "done", !.local[t].ret = l.conn.id]
             [] r = "raise" ->
                  /\ last_used' = last_used
                  /\ thr' = construct(thr, t, l.force_new, l.pooled_at_entry)
             [] OTHER ->
                  /\ last_used' = last_used
                  /\ thr' = [thr EXCEPT !.local[t].pc = "relogin"]
        /\ UNCHANGED <<now, connections, op, totpVars, retryVars, apiVars, msdVars, sgVars, lateVars>>

\* login of the pooled handle, get_connection lines 90-92: the answer to
\* its request
GcRelogin(t, r) ==
    LET conn_key == KeyOf(ThreadIdentity)
        l == thr.local[t]
        o == login(l.conn, r)
    IN  /\ l.pc = "relogin"
        /\ IF ~o.exc /\ o.ret
           THEN /\ connections' = AssignPooled(connections, o.h)
                /\ last_used' = FnSet(last_used, conn_key, now)
                /\ thr' = [thr EXCEPT !.logins = @ + 1,
                                      !.local = [AssignLocals(@, o.h)
                                                    EXCEPT ![t].pc = "done",
                                                           ![t].ret = l.conn.id]]
           ELSE /\ UNCHANGED <<connections, last_used>>
                /\ thr' = construct(thr, t, l.force_new, l.pooled_at_entry)
        /\ UNCHANGED <<now, op, totpVars, retryVars, apiVars, msdVars, sgVars, lateVars>>

\* check_auth of the new handle, get_connection line 108: the answer to its
\* request; on a refusal login sends its request (line 109)
GcNewProbe(t, r) ==
    LET l == thr.local[t]
    IN  /\ l.pc = "new_headers"
        /\ thr' = CASE r = "ok" -> [thr EXCEPT !.local[t].pc = "store"]
                    [] r = "raise" -> [thr EXCEPT !.local[t].pc = "done",
                                                  !.local[t].exc = TRUE]
                    [] OTHER -> [thr EXCEPT !.local[t].pc = "new_login"]
        /\ UNCHANGED <<now, regVars, totpVars, retryVars, apiVars, msdVars, sgVars, lateVars>>

\* login of the new handle, get_connection line 109: the answer to its
\* request; what login returns is not looked at
GcNewLogin(t, r) ==
    LET l == thr.local[t]
        o == login(l.conn, r)
    IN  /\ l.pc = "new_login"
        /\ thr' = IF o.exc
                  THEN [thr EXCEPT !.local[t].pc = "done", !.local[t].exc = TRUE]
                  ELSE [thr EXCEPT !.logins = @ + (IF o.ret THEN 1 ELSE 0),
                                   !.local[t].pc = "store", !.local[t].conn = o.h]
        /\ UNCHANGED <<now, regVars, totpVars, retryVars, apiVars, msdVars, sgVars, lateVars>>

\* get_connection, lines 112-115: the handle is stored and returned
GcStore(t) ==
    LET conn_key == KeyOf(ThreadIdentity)
        conn == thr.local[t].conn
    IN  /\ thr.local[t].pc = "store"
        /\ connections' = DictSet(connections, conn_key, conn)
        /\ last_used' = FnSet(last_used, conn_key, now)
        /\ thr' = [thr EXCEPT !.local[t].pc = "done", !.local[t].ret = conn.id]
        /\ UNCHANGED <<now, op, totpVars, retryVars, apiVars, msdVars, sgVars, lateVars>>

(***************************************************************************)
(* Threads inside close_connection, close_all_connections and              *)
(* clean_unused_connections.  None of them takes a lock, and the logout    *)
(* request of a handle is where the interpreter lets another thread run:   *)
(* a thread takes the statements up to a logout in one step, the logout up *)
(* to its request in one step, the answer in one step, and the removal     *)
(* that follows it in one step.  A handle is one object: an assignment to  *)
(* it shows in the pool and in every thread that has read it.              *)
(***************************************************************************)
TdLocal(pc, method, conn_keys, conn_key, conn, count, current_time, max_idle_time, ret, exc) ==
    [pc |-> pc, method |-> method, conn_keys |-> conn_keys, conn_key |-> conn_key,
     conn |-> conn, count |-> count, current_time |-> current_time,
     max_idle_time |-> max_idle_time, ret |-> ret, exc |-> exc]

TdNotStarted == TdLocal("idle", "", <<>>, "", NoHandle, 0, 0, 0, None, FALSE)

\* initial: the entries pooled at the start; removed: the del statements that
\* succeeded so far.
TdIdle ==
    td = [initial |-> 0, removed |-> 0, local |-> [t \in Threads |-> TdNotStarted]]

\* A pool the registry can hold: entries of different keys, each a handle
\* logged in and stamped at time 0.
Pooled(I) ==
    [key |-> KeyOf(I),
     val |-> [PiKVMAPI(<<KeyOf(I), 0>>, I.hostname, I.username, I.password, I.secret,
                       I.use_https, I.validate_certs, 0) EXCEPT !.auth_token = TRUE]]

TeardownIdentities == {I \in Identities : I.hostname = "c"}

Pools ==
    {<<>>} \cup {<<Pooled(I)>> : I \in TeardownIdentities}
           \cup {pool \in {<<Pooled(I), Pooled(J)>> : I \in TeardownIdentities,
                                                       J \in TeardownIdentities} :
                     pool[1].key # pool[2].key}

\* close_connection, lines 129-132 and 148: the key is tested and the handle read
TdCloseConnection(t, I) ==
    LET conn_key == _get_connection_key(I.hostname, I.username, I.use_https)
    IN  /\ td.local[t].pc = "idle"
        /\ td' = [td EXCEPT !.local[t] =
                     IF DictHas(connections, conn_key)
                     THEN TdLocal("logout", "close_connection", <<>>, conn_key,
                                  DictGet(connections, conn_key), 0, 0, 0, None, FALSE)
                     ELSE TdLocal("done", "close_connection", <<>>, conn_key,
                                  NoHandle, 0, 0, 0, PyBool(FALSE), FALSE)]
        /\ UNCHANGED <<now, regVars, totpVars, retryVars, apiVars, msdVars, sgVars,
                       thrVars, upl, sh>>

\* close_all_connections, lines 157-160: the keys are copied
TdCloseAll(t) ==
    /\ td.local[t].pc = "idle"
    /\ td' = [td EXCEPT !.local[t] =
                 TdLocal("loop", "close_all_connections", DictKeys(connections), "",
                         NoHandle, 0, 0, 0, None, FALSE)]
    /\ UNCHANGED <<now, regVars, totpVars, retryVars, apiVars, msdVars, sgVars,
                   thrVars, upl, sh>>

\* clean_unused_connections, lines 191-195: the clock is read, the keys are copied
TdClean(t, max_idle_time) ==
    /\ td.local[t].pc = "idle"
    /\ td' = [td EXCEPT !.local[t] =
                 TdLocal("loop", "clean_unused_connections", DictKeys(connections), "",
                         NoHandle, 0, now, max_idle_time, None, FALSE)]
    /\ UNCHANGED <<now, regVars, totpVars, retryVars, apiVars, msdVars, sgVars,
                   thrVars, upl, sh>>

\* The for statement of lines 162-163 and 197-202: the next key is taken, in
\* clean_unused_connections it is skipped unless idle for longer than
\* max_idle_time, and its handle is read from the pool (a KeyError when the
\* key is no longer there); after the last key the count is returned.
TdLoop(t) ==
    LET l == td.local[t]
        conn_key == Head(l.conn_keys)
        idle == l.current_time - FnGet(last_used, conn_key, 0) > l.max_idle_time
    IN  /\ l.pc = "loop"
        /\ td' = [td EXCEPT !.local[t] =
                     IF l.conn_keys = <<>>
                     THEN [l EXCEPT !.pc = "done", !.ret = PyInt(l.count)]
                     ELSE IF l.method = "clean_unused_connections" /\ ~idle
                     THEN [l EXCEPT !.conn_keys = Tail(l.conn_keys)]
                     ELSE IF ~DictHas(connections, conn_key)
                     THEN [l EXCEPT !.pc = "done", !.exc = TRUE]
                     ELSE [l EXCEPT !.pc = "logout", !.conn_keys = Tail(l.conn_keys),
                                    !.conn_key = conn_key,
                                    !.conn = DictGet(connections, conn_key)]]
        /\ UNCHANGED <<now, regVars, totpVars, retryVars, apiVars, msdVars, sgVars,
                       thrVars, upl, sh>>

\* conn.logout() inside try/except (lines 135-138, 166-169, 204-207), up to
\* its request: logout tests the token of the handle (pikvm_api.py line 206)
\* and returns True without a request when there is none; otherwise it
\* sends the POST of line 210 and waits for the answer.  The handle is one
\* object, which the pool and the other thread may hold too.
TdLogoutSend(t) ==
    LET l == td.local[t]
    IN  /\ l.pc = "logout"
        /\ td' = [td EXCEPT !.local[t].pc =
                     IF l.conn.auth_token THEN "logout_wait" ELSE "remove"]
        /\ UNCHANGED <<now, regVars, totpVars, retryVars, apiVars, msdVars, sgVars,
                       thrVars, upl, sh>>

\* The answer to the POST (pikvm_api.py lines 212-216): on 200 the token is
\* cleared, on the object, so the pool and every thread holding the handle
\* see it; another status returns False and an exception of the request is
\* caught by the except of the caller.
TdLogoutAnswer(t, r) ==
    LET l == td.local[t]
        h == [l.conn EXCEPT !.auth_token = FALSE]
    IN  /\ l.pc = "logout_wait"
        /\ IF r = "ok"
           THEN /\ connections' = AssignPooled(connections, h)
                /\ td' = [td EXCEPT !.local =
                             [AssignLocals(td.local, h) EXCEPT ![t].pc = "remove"]]
           ELSE /\ td' = [td EXCEPT !.local[t].pc = "remove"]
                /\ UNCHANGED connections
        /\ UNCHANGED <<now, last_used, op, totpVars, retryVars, apiVars, msdVars, sgVars,
                       thrVars, upl, sh>>

\* "Remove from pools" (lines 141-146, 172-177, 210-215): del raises KeyError
\* when the key is no longer in _connections; otherwise the key is removed
\* from both maps and the entry counted.
TdRemove(t) ==
    LET l == td.local[t]
    IN  /\ l.pc = "remove"
        /\ IF ~DictHas(connections, l.conn_key)
           THEN /\ td' = [td EXCEPT !.local[t].pc = "done", !.local[t].exc = TRUE]
                /\ UNCHANGED <<connections, last_used>>
           ELSE /\ connections' = DictDel(connections, l.conn_key)
                /\ last_used' = FnDel(last_used, l.conn_key)
                /\ td' = [td EXCEPT
                             !.removed = @ + 1,
                             !.local[t] =
                                IF l.method = "close_connection"
                                THEN [l EXCEPT !.pc = "done", !.ret = PyBool(TRUE)]
                                ELSE [l EXCEPT !.pc = "loop", !.count = @ + 1]]
        /\ UNCHANGED <<now, op, totpVars, retryVars, apiVars, msdVars, sgVars,
                       thrVars, upl, sh>>

(***************************************************************************)
(* The pikvm_msd_upload module: one run of its main() against the device,  *)
(* whose storage reports free bytes of free space.  The module does not    *)
(* support check mode.                                                     *)
(***************************************************************************)
FileSizes == {1, 2, 1572864}

FreeSpaces == {0, 1, 2, 1572864}

\* str() of a natural number
RECURSIVE IntStr(_)
IntStr(n) ==
    IF n < 10 THEN SubSeq("0123456789", n + 1, n + 1)
    ELSE IntStr(n \div 10) \o SubSeq("0123456789", (n % 10) + 1, (n % 10) + 1)

\* Lines 231-234: round(n / 1024 / 1024, 2) as the f-string prints it.
\* n / 2^20 is exact in a float, so round() gives the nearest hundredth, a
\* tie going to the even one, and the float prints with the digits it needs.
MB(n) ==
    LET q == (n * 100) \div 1048576
        rem == (n * 100) % 1048576
        h == IF 2 * rem > 1048576 \/ (2 * rem = 1048576 /\ q % 2 = 1) THEN q + 1 ELSE q
        frac == h % 100
    IN  IntStr(h \div 100) \o "."
        \o (IF frac % 10 = 0 THEN IntStr(frac \div 10)
            ELSE IntStr(frac \div 10) \o IntStr(frac % 10))

\* The parameters AnsibleModule accepts: src and remote_src are mutually
\* exclusive and one of them is required.  src_isfile and file_size are what
\* os.path.isfile(src) and os.path.getsize(src) answer on the controller.
UploadParams ==
    {p \in [src : {"", "/iso/a.iso"}, src_isfile : BOOLEAN, file_size : FileSizes \cup {0},
            remote_src : {"", "http://host/iso/a.iso"},
            image_name : ImageNames \cup {""}, force : BOOLEAN] :
        /\ (p.src # "") # (p.remote_src # "")
        /\ p.src_isfile => p.src # ""
        /\ (p.file_size # 0) = p.src_isfile}

\* Lines 178-183: the image name, from the source when none is given
upload_image_name(p) ==
    IF p.image_name # "" THEN p.image_name
    ELSE IF p.src # "" THEN basename(p.src)
    ELSE basename(p.remote_src)

\* main of pikvm_msd_upload, after get_pikvm_client returned a client
pikvm_msd_upload_main(dev, free, p, failure) ==
    LET image_name == upload_image_name(p)
        r1 == execute_pikvm_module(Started(dev), get_msd_state, failure)
        free_space == free
        image_exists == image_name \in dev.images
    IN  IF image_exists /\ ~p.force
        THEN \* lines 214-217: result['msg'] and exit_json
             IF r1.ended THEN r1
             ELSE [r1 EXCEPT !.ended = TRUE,
                             !.msg = "Image '" \o image_name
                                     \o "' already exists. Use force=true to replace it."]
        ELSE
        LET r2 == IF image_exists /\ p.force
                  THEN execute_pikvm_module(r1, remove_msd_image(image_name), failure)
                  ELSE r1
        IN  IF p.src # ""
            THEN IF ~p.src_isfile
                 THEN fail_json(r2, "Source file '" \o p.src
                                    \o "' does not exist or is not a regular file")
                 ELSE IF free_space < p.file_size
                 THEN fail_json(r2, "Not enough space on PiKVM storage. Required: "
                                    \o MB(p.file_size) \o " MB, Available: "
                                    \o MB(free_space) \o " MB")
                 ELSE Exit(execute_pikvm_module(r2, upload_msd_image(image_name), failure),
                           TRUE, "")
            ELSE Exit(execute_pikvm_module(r2, upload_msd_remote(image_name), failure),
                      TRUE, "")

\* One run of pikvm_msd_upload: get_pikvm_client, then main.
RunUpload(p, free, e, failure) ==
    /\ upl.pc = "idle"
    /\ LET g == get_pikvm_client(e, now)
           r == IF g.ok THEN pikvm_msd_upload_main(msd, free, p, failure)
                ELSE fail_json(Started(msd), g.msg)
       IN  /\ Asked(e, g, failure, r)
           /\ msd' = r.dev
           /\ upl' = Ended("pikvm_msd_upload", p, msd, g, failure, r) @@ [free |-> free]
    /\ UNCHANGED <<now, regVars, totpVars, retryVars, apiVars, mod, sgVars, thrVars, td, sh>>

(***************************************************************************)
(* The remount become plugin: BecomeModule.build_become_command and the    *)
(* shell script it builds, run by /bin/sh on the device.  The environment  *)
(* decides, for each mount point, whether it is a directory and a mount    *)
(* point and whether a remount succeeds, and the exit status of the        *)
(* wrapped command.  sh keeps the script's variables (successMounts, ret,  *)
(* revert_failed), the mode of each file system, and as history the mount  *)
(* points remounted read-write, those given a read-only remount (and those *)
(* where it failed), and whether the command was run.                      *)
(***************************************************************************)
Mounts == <<"/", "/boot">>

MountSet == {Mounts[i] : i \in 1..Len(Mounts)}

\* Exit statuses of the wrapped command
CmdStatuses == {0, 1, 2}

BecomeUsers == {"", "root", "admin"}

\* The state before the script runs, the file systems mounted as mode says.
ShNotStarted(mode) ==
    [pc |-> "idle", i |-> 1, successMounts |-> <<>>, remaining |-> <<>>,
     mode |-> mode, ret |-> 0, revert_failed |-> 0, status |-> 0,
     rw_ok |-> {}, rw_failed |-> FALSE, ro_attempted |-> {}, ro_failed |-> {},
     cmd_run |-> FALSE]

\* Mutant of remount_rw_failed: the script exits without the rollback loop.
remount_rw_failed_norollback(s) ==
    [s EXCEPT !.pc = "rollback", !.rw_failed = TRUE, !.remaining = <<>>]

\* Lines 30-33: mount -o remount,rw failed; the rollback loop runs over
\* $successMounts, then exit 1.
remount_rw_failed(s) ==
    [s EXCEPT !.pc = "rollback", !.rw_failed = TRUE, !.remaining = s.successMounts]

\* Mutant of exit_status: a failed revert always gives status 1.
exit_status_revertfirst(ret, revert_failed) ==
    IF revert_failed # 0 THEN 1 ELSE ret

\* Lines 48-51: the exit status after the revert loop
exit_status(ret, revert_failed) ==
    IF ret = 0 /\ revert_failed # 0 THEN 1 ELSE ret

\* build_become_command, lines 9-21 and 54-56: an empty command is returned
\* as it is, a become_user other than root is refused, otherwise the script
\* is handed to the shell, which echoes the sentinel and clears successMounts.
ShStart(cmd, become_user) ==
    LET user == IF become_user # "" THEN become_user ELSE "root"
    IN  /\ sh.pc = "idle"
        /\ sh' = [sh EXCEPT !.pc = IF cmd = "" THEN "nocmd"
                                   ELSE IF user \notin {"root", ""} THEN "error"
                                   ELSE "loop"]
        /\ UNCHANGED <<now, regVars, totpVars, retryVars, apiVars, msdVars, sgVars,
                       thrVars, td, upl>>

\* One iteration of "for m in / /boot" (lines 27-38)
ShRemountRW(is_dir, is_mountpoint, ok) ==
    LET m == Mounts[sh.i]
        next == IF sh.i = Len(Mounts) THEN "cmd" ELSE "loop"
    IN  /\ sh.pc = "loop"
        /\ sh' = IF ~is_dir \/ ~is_mountpoint
                 THEN [sh EXCEPT !.i = @ + 1, !.pc = next]
                 ELSE IF ~ok
                 THEN remount_rw_failed(sh)
                 ELSE [sh EXCEPT !.i = @ + 1, !.pc = next,
                                 !.successMounts = <<m>> \o @,
                                 !.mode[m] = "rw",
                                 !.rw_ok = @ \cup {m}]
        /\ UNCHANGED <<now, regVars, totpVars, retryVars, apiVars, msdVars, sgVars,
                       thrVars, td, upl>>

\* One iteration of the rollback loop (line 32)
ShRollback(ok) ==
    LET n == Head(sh.remaining)
    IN  /\ sh.pc = "rollback" /\ sh.remaining # <<>>
        /\ sh' = [sh EXCEPT !.remaining = Tail(@),
                            !.mode[n] = IF ok THEN "ro" ELSE @,
                            !.ro_attempted = @ \cup {n},
                            !.ro_failed = IF ok THEN @ ELSE @ \cup {n}]
        /\ UNCHANGED <<now, regVars, totpVars, retryVars, apiVars, msdVars, sgVars,
                       thrVars, td, upl>>

\* Lines 39-41: the command runs in a subshell; ret=$?; revert_failed=0
ShCommand(status) ==
    /\ sh.pc = "cmd"
    /\ sh' = [sh EXCEPT !.pc = "revert", !.cmd_run = TRUE, !.ret = status,
                        !.revert_failed = 0, !.remaining = sh.successMounts]
    /\ UNCHANGED <<now, regVars, totpVars, retryVars, apiVars, msdVars, sgVars,
                   thrVars, td, upl>>

\* One iteration of the revert loop (lines 42-47)
ShRevert(ok) ==
    LET n == Head(sh.remaining)
    IN  /\ sh.pc = "revert" /\ sh.remaining # <<>>
        /\ sh' = [sh EXCEPT !.remaining = Tail(@),
                            !.mode[n] = IF ok THEN "ro" ELSE @,
                            !.revert_failed = IF ok THEN @ ELSE 1,
                            !.ro_attempted = @ \cup {n},
                            !.ro_failed = IF ok THEN @ ELSE @ \cup {n}]
        /\ UNCHANGED <<now, regVars, totpVars, retryVars, apiVars, msdVars, sgVars,
                       thrVars, td, upl>>

\* exit 1 after the rollback loop (line 33); lines 48-51 after the revert loop
ShExit ==
    /\ sh.pc \in {"rollback", "revert"} /\ sh.remaining = <<>>
    /\ sh' = [sh EXCEPT !.pc = "exited",
                        !.status = IF sh.pc = "rollback" THEN 1
                                   ELSE exit_status(sh.ret, sh.revert_failed)]
    /\ UNCHANGED <<now, regVars, totpVars, retryVars, apiVars, msdVars, sgVars,
                   thrVars, td, upl>>

(***************************************************************************)
(* Parts of the model that are at rest in a specification of another part. *)
(***************************************************************************)
UplIdle == upl = [pc |-> "idle"]

ShIdle == sh = [pc |-> "idle"]

LateIdle == TdIdle /\ UplIdle /\ ShIdle

Init == now = 0 /\ RegInit /\ TotpIdle /\ RetryIdle /\ ApiIdle /\ MsdIdle /\ SgIdle /\ ThrIdle /\ LateIdle

Next ==
    \/ Tick
    \/ \E I \in Identities, force_new \in BOOLEAN, d \in 0..MaxDelay :
          now + d <= MaxTime /\ GetConnection(I, force_new, d)
    \/ \E I \in Identities : CloseConnection(I)
    \/ CloseAllConnections
    \/ \E max_idle_time \in 0..MaxIdle : CleanUnusedConnections(max_idle_time)

Spec == Init /\ [][Next]_vars

RegIdle ==
    /\ connections = <<>>
    /\ last_used = <<>>
    /\ op = [name |-> "init"]

InitTOTP == now = 0 /\ RegIdle /\ TotpInit /\ RetryIdle /\ ApiIdle /\ MsdIdle /\ SgIdle /\ ThrIdle /\ LateIdle

NextTOTP ==
    \/ TotpTick
    \/ \E secret \in Secrets, refresh \in BOOLEAN, d \in 0..MaxDelay :
          GetTotpCode(secret, refresh, d)
    \/ \E secret \in Secrets : TimeRemaining(secret)

SpecTOTP == InitTOTP /\ [][NextTOTP]_vars

\* The registry called with and without a second-factor secret, in a runtime
\* with or without pyotp.
SecretIdentities ==
    { [username |-> "a", hostname |-> "c", use_https |-> TRUE,  secret |-> "S1",
       password |-> "password", validate_certs |-> FALSE],
      [username |-> "a", hostname |-> "c", use_https |-> FALSE, secret |-> "",
       password |-> "password", validate_certs |-> FALSE] }

InitAuth ==
    now = ApiEpoch /\ RegInit /\ TotpInit /\ RetryIdle /\ ApiIdle /\ MsdIdle /\ SgIdle /\ ThrIdle /\ LateIdle

NextAuth ==
    \/ ApiTick
    \/ \E I \in SecretIdentities, force_new \in BOOLEAN, d \in 0..MaxDelay :
          now + d <= ApiEpoch + MaxApiTime /\ GetConnection(I, force_new, d)
    \/ \E I \in SecretIdentities : CloseConnection(I)

SpecAuth == InitAuth /\ [][NextAuth]_vars

\* The registry called for one identity key with arguments that differ in
\* what is not part of the key: password, secret, validate_certs.  No time
\* passes: the timestamps play no part here.
CredIdentity(password, secret, validate_certs) ==
    [username |-> "a", hostname |-> "c", use_https |-> TRUE, secret |-> secret,
     password |-> password, validate_certs |-> validate_certs]

CredIdentities ==
    { CredIdentity("password", NoSecret, FALSE),
      CredIdentity("other",    NoSecret, FALSE),
      CredIdentity("password", "S1",     FALSE),
      CredIdentity("other",    "S1",     TRUE) }

InitCreds == now = 0 /\ RegInit /\ TotpInit /\ RetryIdle /\ ApiIdle /\ MsdIdle /\ SgIdle /\ ThrIdle /\ LateIdle

NextCreds ==
    \/ \E I \in CredIdentities, force_new \in BOOLEAN : GetConnection(I, force_new, 0)
    \/ \E I \in CredIdentities : CloseConnection(I)

SpecCreds == InitCreds /\ [][NextCreds]_vars

InitRetry == now = 0 /\ RegIdle /\ TotpInit /\ RetryIdle /\ ApiIdle /\ MsdIdle /\ SgIdle /\ ThrIdle /\ LateIdle

NextRetry ==
    \/ Tick
    \/ \E secret \in {NoSecret, "S1"}, max_retries \in 0..MaxRetries, self_first \in BOOLEAN :
          RetryStart(secret, max_retries, self_first)
    \/ \E response \in Responses : RetryAttempt(response)

SpecRetry == InitRetry /\ [][NextRetry]_vars

\* The while loop of wrapper goes on: a wrapped operation that was invoked
\* returns or raises, and the loop takes its next pass.
SpecRetryLive ==
    InitRetry /\ [][NextRetry]_vars
    /\ WF_vars(\E response \in Responses : RetryAttempt(response))

\* A handle constructed by the caller, with or without a secret, and the
\* calls made on it as the clock passes the end of a TOTP window.
InitAPI ==
    /\ now = ApiEpoch /\ RegIdle /\ TotpInit /\ RetryIdle
    /\ \E secret \in {NoSecret, "S1"} : api = ApiMade(secret, now)
    /\ MsdIdle /\ SgIdle /\ ThrIdle /\ LateIdle

NextAPI ==
    \/ ApiTick
    \/ \E secret \in {NoSecret, "S1"} : ApiNew(secret)
    \/ \E r \in LoginResp : ApiLogin(r)
    \/ \E r1 \in Resp, r2 \in Resp : ApiCheckAuth(r1, r2)
    \/ \E r \in Resp : ApiLogout(r)
    \/ \E response \in Responses : ApiGet(response)
    \/ \E response \in Responses : ApiPost(response)
    \/ \E follow \in BOOLEAN, response \in Responses : ApiGetSystemLog(follow, response)
    \/ \E response \in Responses : ApiGetPrometheusMetrics(response)
    \/ \E response \in Responses : ApiGetStreamerSnapshot(response)

SpecAPI == InitAPI /\ [][NextAPI]_vars

\* One run of the pikvm_msd module, with every accepted combination of
\* parameters, against every state of the device, any one of its device
\* calls failing.
InitMSD == now = 0 /\ RegIdle /\ TotpInit /\ RetryIdle /\ ApiIdle /\ MsdInit /\ SgIdle /\ ThrIdle /\ LateIdle

NextMSD ==
    \/ /\ mod.pc = "idle"
       /\ \E e \in ClientEnvs, failure \in Failures, p \in MsdParams :
             RunModule(p, e, failure)
    \/ /\ mod.pc = "idle"
       /\ \E e \in ClientEnvs, failure \in Failures, p \in ConnectParams,
             top_level \in BOOLEAN :
             RunConnect(p, top_level, e, failure)
    \/ /\ mod.pc = "idle"
       /\ \E e \in ClientEnvs, failure \in Failures, p \in ParamsParams,
             top_level \in BOOLEAN :
             RunParams(p, top_level, e, failure)
    \/ WakeModule

SpecMSD == InitMSD /\ [][NextMSD]_vars

\* The process from before the import of pikvm_connection: the two
\* constructions of the import, then three threads constructing the classes
\* again and again while the instances are in use.
InitSingleton ==
    now = 0 /\ RegIdle /\ TotpIdle /\ RetryIdle /\ ApiIdle /\ MsdIdle /\ SgIdle /\ ThrIdle /\ LateIdle

NextSingleton ==
    \/ \E t \in SgThreads, c \in Classes : NewEnter(t, c)
    \/ \E t \in SgThreads : NewBody(t)
    \/ \E t \in SgThreads : InitTest(t)
    \/ \E t \in SgThreads : InitAssign(t)
    \/ \E t \in SgThreads : InitFlag(t)
    \/ \E c \in Classes, content \in {"empty", "used"} : UseInstance(c, content)

SpecSingleton == InitSingleton /\ [][NextSingleton]_vars

\* Two threads calling get_connection for one identity, in any interleaving
\* of their steps.
InitThreads ==
    now = 0 /\ RegInit /\ TotpIdle /\ RetryIdle /\ ApiIdle /\ MsdIdle /\ SgIdle /\ ThrIdle /\ LateIdle

NextThreads ==
    \/ \E t \in Threads, force_new \in BOOLEAN : GcLookup(t, force_new)
    \/ \E t \in Threads, r \in Resp : GcCheckToken(t, r)
    \/ \E t \in Threads, r \in Resp : GcCheckHeaders(t, r)
    \/ \E t \in Threads, r \in LoginResp : GcRelogin(t, r)
    \/ \E t \in Threads, r \in Resp : GcNewProbe(t, r)
    \/ \E t \in Threads, r \in LoginResp : GcNewLogin(t, r)
    \/ \E t \in Threads : GcStore(t)

SpecThreads == InitThreads /\ [][NextThreads]_vars

\* Two threads, each making one teardown call on a pool of up to two entries,
\* in any interleaving of their steps.
InitTeardown ==
    /\ now = 0 /\ TotpIdle /\ RetryIdle /\ ApiIdle /\ MsdIdle /\ SgIdle /\ ThrIdle
    /\ UplIdle /\ ShIdle
    /\ op = [name |-> "init", ident |-> None, arg |-> None, t |-> 0,
             ret |-> None, exc |-> FALSE, calls |-> <<>>]
    /\ connections \in Pools
    /\ last_used = [k \in DictKeySet(connections) |-> 0]
    /\ td = [initial |-> Len(connections), removed |-> 0,
             local |-> [t \in Threads |-> TdNotStarted]]

NextTeardown ==
    \/ Tick
    \/ \E t \in Threads, I \in TeardownIdentities : TdCloseConnection(t, I)
    \/ \E t \in Threads : TdCloseAll(t)
    \/ \E t \in Threads, max_idle_time \in 0..MaxIdle : TdClean(t, max_idle_time)
    \/ \E t \in Threads : TdLoop(t)
    \/ \E t \in Threads : TdLogoutSend(t)
    \/ \E t \in Threads, r \in Resp : TdLogoutAnswer(t, r)
    \/ \E t \in Threads : TdRemove(t)

SpecTeardown == InitTeardown /\ [][NextTeardown]_vars

\* The pikvm_msd_upload module is run once, against a device in any state.
InitUpload ==
    /\ now = 0 /\ RegIdle /\ TotpInit /\ RetryIdle /\ ApiIdle /\ SgIdle /\ ThrIdle
    /\ TdIdle /\ ShIdle
    /\ msd \in DeviceStates
    /\ mod = [pc |-> "idle"]
    /\ upl = [pc |-> "idle"]

NextUpload ==
    /\ upl.pc = "idle"
    /\ \E e \in ClientEnvs, failure \in Failures, p \in UploadParams, free \in FreeSpaces :
          RunUpload(p, free, e, failure)

SpecUpload == InitUpload /\ [][NextUpload]_vars

\* One command run through the become plugin, each file system being mounted
\* read-only or read-write before it.
InitShell ==
    /\ now = 0 /\ RegIdle /\ TotpIdle /\ RetryIdle /\ ApiIdle /\ MsdIdle /\ SgIdle /\ ThrIdle
    /\ TdIdle /\ UplIdle
    /\ \E mode \in [MountSet -> {"ro", "rw"}] : sh = ShNotStarted(mode)

NextShell ==
    \/ \E cmd \in {"", "cmd"}, become_user \in BecomeUsers : ShStart(cmd, become_user)
    \/ \E is_dir \in BOOLEAN, is_mountpoint \in BOOLEAN, ok \in BOOLEAN :
          ShRemountRW(is_dir, is_mountpoint, ok)
    \/ \E ok \in BOOLEAN : ShRollback(ok)
    \/ \E status \in CmdStatuses : ShCommand(status)
    \/ \E ok \in BOOLEAN : ShRevert(ok)
    \/ ShExit

SpecShell == InitShell /\ [][NextShell]_vars

(***************************************************************************)
(* Properties of the connection registry (checked under Spec).             *)
(***************************************************************************)
IdentOf(h) == [username |-> h.username, hostname |-> h.hostname, use_https |-> h.use_https,
               secret |-> h.secret, password |-> h.password,
               validate_certs |-> h.validate_certs]

PoolIndexes == 1..Len(connections)

\* The calls of an observed operation that are method m on handle id.
CallsOn(o, m, id) == {j \in 1..Len(o.calls) : o.calls[j].m = m /\ o.calls[j].h = id}

Made(o) == {j \in 1..Len(o.calls) : o.calls[j].m = "PiKVMAPI"}

\* A step that is not a tick of the clock is a registry call, and op' is
\* what that call was and what it did.
Called(name) ==
    /\ op'.name = name
    /\ ~(now' = now + 1 /\ UNCHANGED <<connections, last_used, op>>)

TeardownNames == {"close_connection", "close_all_connections", "clean_unused_connections"}

\* C1: after any sequence of registry calls the pool holds at most one entry
\* for every identity key, at most one handle built for every identity, and
\* every pooled handle is filed under the key of the identity it was built for.
C1_AtMostOnePerKey ==
    /\ \A I \in Identities :
          /\ Cardinality({i \in PoolIndexes : connections[i].key = KeyOf(I)}) <= 1
          /\ Cardinality({i \in PoolIndexes : IdentOf(connections[i].val) = I}) <= 1
    /\ \A i \in PoolIndexes : connections[i].key = KeyOf(connections[i].val)

\* A handle that replaced the pooled one of its key (force_new, or a failed
\* re-validation) is pooled beside an entry of another key.
C1_Witness ==
    /\ op.name = "get_connection" /\ ~op.exc
    /\ op.ret[2] = 1
    /\ Len(connections) = 2

\* (A call whose first PiKVMAPI call is check_auth took the force_new=False
\* path on a pooled key: every other call begins by constructing a handle.)
\* C2: a get_connection(force_new=False) that follows a get_connection of the
\* same identity which returned handle h, and whose probe of the pooled handle
\* reports authenticated, returns h, makes no other call (no login, no new
\* handle), leaves h pooled and stamps the key with the time of the call.
C2_ReuseAuthenticated ==
    [][\A I \in Identities :
          ( /\ op.name = "get_connection" /\ op.ident = I /\ ~op.exc
            /\ Called("get_connection") /\ op'.ident = I
            /\ op'.calls[1] = [m |-> "check_auth", h |-> op.ret, r |-> "true"] )
          => /\ ~op'.exc /\ op'.ret = op.ret
             /\ Len(op'.calls) = 1
             /\ Len(connections') = Len(connections)
             /\ DictGet(connections', KeyOf(I)).id = op.ret
             /\ last_used'[KeyOf(I)] = now'
      ]_vars

\* A pooled handle was returned after its probe alone, at a time later than 0.
C2_Witness ==
    /\ op.name = "get_connection" /\ ~op.exc
    /\ Len(op.calls) = 1 /\ op.calls[1].m = "check_auth" /\ op.calls[1].r = "true"
    /\ last_used[KeyOf(op.ident)] >= 1
    /\ now = last_used[KeyOf(op.ident)]

\* The case of C3: a get_connection step whose first call is the probe of the
\* handle pooled under the key k of the identity (so force_new was False), and
\* the probe reports not authenticated; old is that handle.
C3_Probed ==
    /\ Called("get_connection")
    /\ op'.calls[1].m = "check_auth" /\ op'.calls[1].r = "false"

C3_Case(k, old) == DictHas(connections, k) /\ DictGet(connections, k).id = old

\* Exactly one login is attempted on the pooled handle, right after the
\* probe; if it succeeds that handle is returned, stamped, nothing is made.
C3_OneLogin(k, old) ==
    /\ op'.calls[2].m = "login" /\ op'.calls[2].h = old
    /\ \A j \in 3..Len(op'.calls) : ~(op'.calls[j].m = "login" /\ op'.calls[j].h = old)
    /\ op'.calls[2].r = "true"
          => /\ ~op'.exc /\ op'.ret = old
             /\ Made(op') = {}
             /\ DictGet(connections', k).id = old
             /\ last_used'[k] = now'

\* C3 as claimed, read for the calls that do not raise: after a failed
\* re-login a new handle is constructed, logged in, stored under the key in
\* place of the old one and returned.
C3_Original ==
    [][C3_Probed
       => LET k == KeyOf(op'.ident)
              old == op'.calls[1].h
          IN  C3_Case(k, old)
              => /\ C3_OneLogin(k, old)
                 /\ ( op'.calls[2].r # "true" /\ ~op'.exc )
                       => /\ Cardinality(Made(op')) = 1
                          /\ \A j \in Made(op') :
                                LET new == op'.calls[j].h
                                IN  /\ new # old
                                    /\ CallsOn(op', "login", new) # {}
                                    /\ op'.ret = new
                                    /\ DictGet(connections', k).id = new
      ]_vars

\* C3 amended: after a failed re-login a new handle is constructed and
\* probed, and logged in (once) exactly when its probe reports not
\* authenticated; if that probe or login raises, get_connection raises and
\* the old handle stays pooled with its timestamp, otherwise the new handle
\* is stored under the key in place of the old one, stamped, and returned.
C3_ReloginThenCreate ==
    [][C3_Probed
       => LET k == KeyOf(op'.ident)
              old == op'.calls[1].h
              n == Len(op'.calls)
              new == op'.calls[3].h
          IN  C3_Case(k, old)
              => /\ C3_OneLogin(k, old)
                 /\ op'.calls[2].r # "true"
                       => /\ Made(op') = {3}
                          /\ new # old
                          /\ n \in {4, 5}
                          /\ op'.calls[4].m = "check_auth" /\ op'.calls[4].h = new
                          /\ (n = 5) = (op'.calls[4].r = "false")
                          /\ n = 5 => op'.calls[5].m = "login" /\ op'.calls[5].h = new
                          /\ IF op'.calls[n].r = "raise"
                             THEN /\ op'.exc
                                  /\ DictGet(connections', k).id = old
                                  /\ last_used' = last_used
                             ELSE /\ ~op'.exc /\ op'.ret = new
                                  /\ DictGet(connections', k).id = new
                                  /\ last_used'[k] = now'
                          /\ Len(connections') = Len(connections)
      ]_vars

\* The re-login on the pooled handle failed and the new handle was stored
\* without a login, its probe having reported authenticated.
C3_Witness ==
    /\ op.name = "get_connection" /\ ~op.exc
    /\ Len(op.calls) = 4
    /\ op.calls[1].m = "check_auth" /\ op.calls[1].r = "false"
    /\ op.calls[2].m = "login" /\ op.calls[2].r \in {"false", "raise"}
    /\ op.calls[3].m = "PiKVMAPI"
    /\ op.calls[4].m = "check_auth" /\ op.calls[4].r = "true"
    /\ op.ret = op.calls[3].h /\ op.ret # op.calls[1].h

\* C4: when the login of a newly constructed handle returns False,
\* get_connection raises nothing, returns that handle and has it pooled and
\* stamped under the identity key; the handle holds no session token.
C4_LoginFailureNotFatal ==
    LET n == Len(op.calls)
    IN  ( /\ op.name = "get_connection"
          /\ op.calls[n].m = "login" /\ op.calls[n].r = "false" )
        => /\ n >= 3 /\ op.calls[n - 2].m = "PiKVMAPI"
           /\ op.calls[n - 2].h = op.calls[n].h
           /\ ~op.exc
           /\ op.ret = op.calls[n].h
           /\ DictHas(connections, KeyOf(op.ident))
           /\ DictGet(connections, KeyOf(op.ident)).id = op.ret
           /\ ~DictGet(connections, KeyOf(op.ident)).auth_token
           /\ KeyOf(op.ident) \in DOMAIN last_used

\* A new handle whose login returned False was returned and is pooled.
C4_Witness ==
    /\ op.name = "get_connection" /\ ~op.exc
    /\ op.calls[Len(op.calls)].m = "login" /\ op.calls[Len(op.calls)].r = "false"
    /\ DictGet(connections, KeyOf(op.ident)).id = op.ret

\* C5: a teardown call never raises, and every entry it called logout on is
\* gone from the pool and from the timestamps and is counted in the result,
\* whatever the logout did.
C5_TeardownBestEffort ==
    op.name \in TeardownNames
    => /\ ~op.exc
       /\ \A j \in 1..Len(op.calls) :
             /\ op.calls[j].m = "logout"
             /\ ~DictHas(connections, op.calls[j].h[1])
             /\ op.calls[j].h[1] \notin DOMAIN last_used
       /\ IF op.name = "close_connection"
          THEN op.ret = PyBool(Len(op.calls) = 1)
          ELSE op.ret = PyInt(Len(op.calls))

\* close_all_connections removed two entries, the logout of one raising and
\* the logout of the other returning False.
C5_Witness ==
    /\ op.name = "close_all_connections"
    /\ \E i, j \in 1..Len(op.calls) : op.calls[i].r = "raise" /\ op.calls[j].r = "false"
    /\ op.ret = PyInt(2) /\ connections = <<>>

\* C6: close_connection returns True exactly when the key was pooled; after
\* it the key is not pooled, every other key keeps its handle and timestamp,
\* and when it returns False nothing changed and no logout was attempted.
C6_CloseConnectionFrame ==
    [][\A I \in Identities :
          ( Called("close_connection") /\ op'.ident = I )
          => LET k == KeyOf(I)
             IN  /\ op'.ret = PyBool(DictHas(connections, k))
                 /\ ~DictHas(connections', k) /\ k \notin DOMAIN last_used'
                 /\ \A k2 \in Keys \ {k} :
                       /\ DictHas(connections', k2) = DictHas(connections, k2)
                       /\ DictHas(connections, k2)
                             => DictGet(connections', k2) = DictGet(connections, k2)
                       /\ (k2 \in DOMAIN last_used') = (k2 \in DOMAIN last_used)
                       /\ k2 \in DOMAIN last_used => last_used'[k2] = last_used[k2]
                 /\ op'.ret = PyBool(FALSE) => /\ connections' = connections
                                           /\ last_used' = last_used
                                           /\ op'.calls = <<>>
                 /\ op'.ret = PyBool(TRUE) => Len(op'.calls) = 1
      ]_vars

\* A pooled entry was closed while an entry of another key stays pooled.
C6_Witness ==
    /\ op.name = "close_connection" /\ op.ret = PyBool(TRUE)
    /\ Len(connections) = 1
    /\ ~DictHas(connections, KeyOf(op.ident))

\* C7: close_all_connections on N pooled entries returns N, calls logout
\* exactly once on each of them and on nothing else, and leaves
\* get_total_connections() at 0.
C7_CloseAllCounts ==
    [][Called("close_all_connections")
       => /\ op'.ret = PyInt(Len(connections))
          /\ Len(op'.calls) = Len(connections)
          /\ \A i \in PoolIndexes :
                Cardinality(CallsOn(op', "logout", connections[i].val.id)) = 1
          /\ get_total_connections(connections') = 0
          /\ last_used' = <<>>
      ]_vars

\* Two pooled entries were closed by one close_all_connections.
C7_Witness ==
    /\ op.name = "close_all_connections"
    /\ op.ret = PyInt(2) /\ Len(op.calls) = 2
    /\ get_total_connections(connections) = 0

\* C8: clean_unused_connections(max_idle) at time T removes exactly the
\* entries with T - last_used > max_idle and returns their number; the other
\* entries, their order and their timestamps are untouched; a second call
\* with the same max_idle at the same clock reading, nothing in between,
\* removes nothing and returns 0.
C8_CleanExactlyIdle ==
    [][\A m \in 0..MaxIdle :
          ( Called("clean_unused_connections") /\ op'.arg = PyInt(m) )
          => LET Idle(k) == now - last_used[k] > m
                 kept == SelectSeq(connections, LAMBDA e : ~Idle(e.key))
             IN  /\ connections' = kept
                 /\ DOMAIN last_used' = {k \in DOMAIN last_used : ~Idle(k)}
                 /\ \A k \in DOMAIN last_used' : last_used'[k] = last_used[k]
                 /\ op'.ret = PyInt(Len(connections) - Len(kept))
                 /\ ~op'.exc
                 /\ ( op.name = "clean_unused_connections" /\ op.arg = PyInt(m) /\ op.t = now )
                       => /\ op'.ret = PyInt(0)
                          /\ connections' = connections
                          /\ last_used' = last_used
                          /\ op'.calls = <<>>
      ]_vars

\* An eviction removed an entry and kept one that was idle for exactly
\* max_idle seconds.
C8_Witness ==
    /\ op.name = "clean_unused_connections"
    /\ op.ret[2] >= 1 /\ Len(connections) >= 1
    /\ now = op.t
    /\ \E k \in DOMAIN last_used : op.t - last_used[k] = op.arg[2]

(***************************************************************************)
(* Properties of the TOTP cache (checked under SpecTOTP).                  *)
(***************************************************************************)
\* C9: two refresh=False calls for one secret made within the same time
\* window return the identical code; a refresh=True call always generates a
\* code and leaves it, with the expiry it computed, in the cache.
C9_SameWindowSameCode ==
    /\ \A x, y \in handed : (x[1] = y[1] /\ x[2] = y[2]) => x[3] = y[3]
    /\ ( top.name = "get_totp_code" /\ top.refresh /\ ~top.exc )
          => /\ top.generated
             /\ totp_codes[top.secret] = top.ret
             /\ top.secret \in DOMAIN code_expiry

\* C10: get_totp_code returns the cached code without generating one exactly
\* when refresh is False, the secret has an entry and the clock is strictly
\* below the entry's expiry minus 5; then the cache is unchanged; otherwise a
\* code is generated.
C10_CachedOnlyBeforeBuffer ==
    [][\A secret \in Secrets, refresh \in BOOLEAN, d \in 0..MaxDelay :
          ( GetTotpCode(secret, refresh, d) /\ HAS_PYOTP )
          => LET usable == /\ ~refresh
                           /\ secret \in DOMAIN totp_codes
                           /\ secret \in DOMAIN code_expiry
                           /\ now < code_expiry[secret] - 5
             IN  /\ top'.generated = ~usable
                 /\ ~top'.generated
                       => /\ top'.ret = totp_codes[secret]
                          /\ totp_codes' = totp_codes
                          /\ code_expiry' = code_expiry
                          /\ now' + 5 < code_expiry'[secret]
      ]_vars

\* A cached code was returned at the last second before the buffer begins.
C10_Witness ==
    /\ top.name = "get_totp_code" /\ ~top.exc
    /\ ~top.refresh /\ ~top.generated
    /\ now = code_expiry[top.secret] - 6

\* C11: time_remaining(secret) returns 0 when the secret has no cached expiry
\* or the cached expiry is not after the clock, and expiry - now otherwise,
\* so never a negative value; it leaves the cache as it was.
C11_TimeRemainingNonNegative ==
    [][\A secret \in Secrets :
          ( now' = now /\ top'.name = "time_remaining" /\ top'.secret = secret )
          => /\ top'.ret[2] >= 0
             /\ top'.ret = PyInt(IF secret \notin DOMAIN code_expiry
                                    \/ code_expiry[secret] <= now
                                 THEN 0
                                 ELSE code_expiry[secret] - now)
             /\ UNCHANGED <<totp_objects, totp_codes, code_expiry>>
      ]_vars

\* time_remaining was asked after the cached expiry of the secret had passed.
C11_Witness ==
    /\ top.name = "time_remaining"
    /\ top.secret \in DOMAIN code_expiry
    /\ code_expiry[top.secret] < now
    /\ top.ret = PyInt(0)

(***************************************************************************)
(* Properties of the retry policy (checked under SpecRetry).  rp keeps the *)
(* whole call: answers[k] and msgs[k] are the response to the k-th         *)
(* invocation of the operation and the message of the error it raised.     *)
(***************************************************************************)
SecondFactorExpired == "Authentication failed - TOTP might have expired"
AuthenticationRequired == "Authentication required"
AuthenticationRejected == "Authentication failed - incorrect credentials"

Attempts == IF rp.pc = "idle" THEN {} ELSE 1..Len(rp.msgs)

\* The k-th invocation was followed by another one (or is about to be).
Retried(k) == k < Len(rp.msgs) \/ rp.pc = "attempt"

\* The assignments to the headers that the attempts before the k-th caused:
\* one by _handle_response for each that it answered with the
\* second-factor-expired error, one by the wrapper for each when the
\* connection is the first argument of the operation.
RegensBefore(k) ==
    Cardinality({j \in 1..(k - 1) : rp.msgs[j] = SecondFactorExpired})
    + (IF rp.self_first THEN k - 1 ELSE 0)

\* C12: with budget 1, a call whose first attempt fails with the
\* second-factor-expired error and whose retry succeeds returns the result of
\* the retry, and the headers of the connection were regenerated exactly once
\* during the call.
C12_OneRefresh ==
    ( /\ rp.pc = "done" /\ rp.max_retries = 1
      /\ rp.msgs = <<SecondFactorExpired, "">>
      /\ rp.answers[1].why = "code_expired" )
    => /\ rp.ret = "data"
       /\ rp.regens = 1

\* C13: when every attempt fails with the second-factor-expired error and the
\* budget is n, the operation is invoked n+1 times, n retries are made, and
\* the caller gets the second-factor-expired error of the last attempt.
C13_BudgetExhausted ==
    ( rp.pc # "idle" /\ \A k \in Attempts : rp.msgs[k] = SecondFactorExpired )
    => /\ rp.invoked = Len(rp.msgs)
       /\ rp.pc # "done"
       /\ rp.pc = "attempt" => rp.retries = rp.invoked /\ rp.invoked <= rp.max_retries
       /\ rp.pc = "failed" => /\ rp.invoked = rp.max_retries + 1
                              /\ rp.retries = rp.max_retries
                              /\ rp.err = SecondFactorExpired

\* Three attempts, all answered 403, used up a budget of 2.
C13_Witness ==
    /\ rp.pc = "failed" /\ rp.max_retries = 2
    /\ rp.invoked = 3
    /\ \A k \in 1..3 : rp.answers[k].status = 403 /\ rp.msgs[k] = SecondFactorExpired

\* C14: an attempt answered 401, or answered 403 on a connection without a
\* secret, ends the call: the operation is not invoked again, that failure
\* regenerates no headers, and its error is what the caller gets; when it is
\* the first attempt the operation was invoked exactly once and no headers
\* were regenerated at all.
C14_NoRetryOnAuthErrors ==
    \A k \in Attempts :
       ( \/ rp.answers[k].status = 401
         \/ rp.answers[k].status = 403 /\ rp.conn.secret = NoSecret )
       => /\ k = Len(rp.msgs) /\ rp.invoked = k
          /\ rp.pc = "failed" /\ rp.retries = k - 1
          /\ rp.err = rp.msgs[k]
          /\ rp.err = IF rp.answers[k].status = 401
                      THEN AuthenticationRequired ELSE AuthenticationRejected
          /\ rp.regens = RegensBefore(k)
          /\ k = 1 => rp.invoked = 1 /\ rp.regens = 0

\* A first attempt answered 403 ended a call, with budget, on a connection
\* without a secret.
C14_Witness ==
    /\ rp.pc = "failed" /\ rp.max_retries >= 1
    /\ rp.conn.secret = NoSecret
    /\ rp.invoked = 1 /\ rp.answers[1].status = 403
    /\ rp.err = AuthenticationRejected

\* C15 as claimed: an attempt that failed because of a wrong password is
\* never retried, with or without a secret on the connection.
C15_Original ==
    \A k \in Attempts : rp.answers[k].why = "wrong_password" => ~Retried(k)

\* C15 amended: an attempt is retried exactly when its error carries the
\* expired-code signature and the budget is not used up.  A wrong password
\* on a connection without a secret (or without pyotp) is reported as a plain
\* credential failure and never retried; on a connection with a secret and
\* pyotp it is answered 403 like an expired code, carries the signature and
\* is retried.  No other failure carries the signature unless the error
\* text of the device does.
C15_RetryOnlyOnSignature ==
    \A k \in Attempts :
       LET signed == Contains("TOTP might have expired", rp.msgs[k])
           second_factor == rp.conn.secret # NoSecret /\ HAS_PYOTP
       IN  /\ Retried(k) = (signed /\ k - 1 < rp.max_retries)
           /\ rp.answers[k].why = "wrong_password"
                 => rp.msgs[k] = IF second_factor THEN SecondFactorExpired
                                 ELSE AuthenticationRejected
           /\ signed => \/ rp.answers[k].status = 403 /\ second_factor
                        \/ /\ rp.answers[k].status \notin {401, 403}
                           /\ Contains("TOTP might have expired", rp.answers[k].error)

\* A wrong password was retried on a connection with a secret, and the call
\* ended with the budget used up.
C15_Witness ==
    /\ rp.pc = "failed" /\ rp.conn.secret # NoSecret
    /\ rp.invoked = 2 /\ rp.max_retries = 1
    /\ rp.answers[1].why = "wrong_password" /\ rp.answers[2].why = "wrong_password"

\* C20: a 401 is classified as authentication required; a 403 as the
\* second-factor-expired error exactly when the connection has a secret, and
\* as the plain credential failure otherwise; no other status is classified
\* as the second-factor-expired error.
C20_Classification ==
    \A k \in Attempts :
       LET status == rp.answers[k].status
       IN  /\ status = 401 => rp.msgs[k] = AuthenticationRequired
           /\ status = 403 => rp.msgs[k] = IF rp.conn.secret # NoSecret
                                           THEN SecondFactorExpired
                                           ELSE AuthenticationRejected
           /\ status # 403 => rp.msgs[k] # SecondFactorExpired

(***************************************************************************)
(* Identity and second factor in the registry.                             *)
(***************************************************************************)
\* C16: every code a connection sends comes from the TOTP cache: after a
\* get_connection that logged a handle with a secret in (pyotp available),
\* the cache holds a code for the secret and it is the code the login sent.
C16_CodesFromCache ==
    ( /\ op.name = "get_connection" /\ ~op.exc /\ HAS_PYOTP
      /\ op.ident.secret # NoSecret
      /\ \E j \in 1..Len(op.calls) : op.calls[j].m = "login" )
    => /\ op.ident.secret \in DOMAIN totp_codes
       /\ \A i \in PoolIndexes :
             connections[i].val.secret = op.ident.secret
             => login_data(connections[i].val, now).passwd[2] = totp_codes[op.ident.secret]

\* The retry half of C16: once the retry policy has regenerated the headers
\* of a connection with a secret (pyotp available), the cache holds a code
\* for the secret.
C16_RetryRefreshesCache ==
    ( rp.pc # "idle" /\ HAS_PYOTP /\ rp.conn.secret # NoSecret /\ rp.regens >= 1 )
    => rp.conn.secret \in DOMAIN totp_codes

\* C17: a get_connection never returns, and the pool never files under the
\* key of the call, a handle that was made for another (username, hostname,
\* scheme).
C17_KeyInjective ==
    ( op.name = "get_connection" /\ ~op.exc )
    => LET h == DictGet(connections, KeyOf(op.ident))
       IN  /\ h.id = op.ret
           /\ h.username = op.ident.username
           /\ h.hostname = op.ident.hostname
           /\ h.use_https = op.ident.use_https

\* C18: without pyotp, get_connection with a secret raises and no handle is
\* pooled under the key of the call.
C18_SecondFactorUnavailable ==
    ( op.name = "get_connection" /\ ~HAS_PYOTP /\ op.ident.secret # NoSecret )
    => /\ op.exc
       /\ ~DictHas(connections, KeyOf(op.ident))

\* C19: without pyotp, get_totp_code raises for every secret and either value
\* of refresh, and leaves the cached codes and expiries as they were.
C19_UnavailableSecondFactor ==
    [][\A secret \in Secrets, refresh \in BOOLEAN :
          ( /\ ~HAS_PYOTP /\ now' = now
            /\ top'.name = "get_totp_code"
            /\ top'.secret = secret /\ top'.refresh = refresh )
          => /\ top'.exc /\ top'.ret = None
             /\ UNCHANGED <<totp_objects, totp_codes, code_expiry>>
      ]_vars

\* A refresh was asked for without pyotp, and raised.
C19_Witness ==
    /\ ~HAS_PYOTP
    /\ top.name = "get_totp_code" /\ top.refresh /\ top.exc

(***************************************************************************)
(* The expiry of a TOTP entry (checked under SpecTOTP).                    *)
(***************************************************************************)
\* C28: whenever get_totp_code generates a code, the expiry it stores is the
\* end of the window containing the reading now of line 286: a multiple of
\* the interval with now < expiry <= now + interval.
C28_ExpiryAligned ==
    [][\A secret \in Secrets, refresh \in BOOLEAN, d \in 0..MaxDelay :
          ( GetTotpCode(secret, refresh, d) /\ top'.generated )
          => LET expiry == code_expiry'[secret]
             IN  /\ expiry % Interval = 0
                 /\ now' < expiry
                 /\ expiry <= now' + Interval
      ]_vars

\* A code was generated on the first second of the second window; its expiry
\* is a whole interval later.
C28_Witness ==
    /\ top.name = "get_totp_code" /\ top.generated
    /\ now = Interval
    /\ code_expiry[top.secret] = now + Interval

\* C29: every cache entry pairs a code with the expiry of the window in
\* which the code was generated.
C29_CodeAndExpiryOfOneWindow ==
    \A secret \in DOMAIN totp_codes :
        code_expiry[secret] = (totp_codes[secret][2] + 1) * Interval

(***************************************************************************)
(* The state machine of one call through the retry policy (checked under   *)
(* SpecRetryLive).                                                         *)
(***************************************************************************)
\* The call in progress has ended: DONE or FAILED.
RetryEnded == rp.pc \in {"done", "failed"}

\* C27 as stated: at most max_retries + 1 invocations; an invocation is
\* followed by another only when it failed with the expired-code error; as
\* many header refreshes by the policy as re-attempts.
C27_Original ==
    rp.pc # "idle"
    => /\ rp.invoked <= rp.max_retries + 1
       /\ \A k \in Attempts :
             Retried(k) => Contains("TOTP might have expired", rp.msgs[k])
       /\ rp.refreshes = rp.retries

\* C27, amended: the call ends; the operation is invoked at most
\* max_retries + 1 times, once more than the retries granted so far when the
\* call has ended; an invocation is followed by another only when it raised
\* a PiKVMAPIError whose text contains "TOTP might have expired"; the policy
\* refreshes the headers once per retry when the first positional argument
\* is the connection, and never otherwise.
C27_StateMachine ==
    /\ [](rp.pc # "idle"
          => /\ rp.invoked <= rp.max_retries + 1
             /\ rp.retries <= rp.max_retries
             /\ rp.invoked = rp.retries + (IF RetryEnded THEN 1 ELSE 0)
             /\ \A k \in Attempts :
                   Retried(k) => Contains("TOTP might have expired", rp.msgs[k])
             /\ rp.pc = "done" => rp.answers[rp.invoked].status = 200
                                  /\ rp.answers[rp.invoked].ok
             /\ rp.refreshes = (IF rp.self_first THEN rp.retries ELSE 0))
    /\ (rp.pc = "attempt" ~> RetryEnded)

\* The operation succeeded on the last invocation the budget allowed, the
\* policy having refreshed the headers of the connection before each retry.
C27_Witness ==
    /\ rp.pc = "done"
    /\ rp.self_first
    /\ rp.max_retries = MaxRetries
    /\ rp.invoked = MaxRetries + 1
    /\ rp.refreshes = MaxRetries

(***************************************************************************)
(* Properties of a handle (checked under SpecAPI).                         *)
(***************************************************************************)
\* The requests of the last call that carried credentials in their headers.
HeaderRequests ==
    {j \in 1..Len(api.call.requests) : api.call.requests[j].headers # NoCredentials}

\* C22: the header credentials check_auth sends are those computed at the
\* time of the probe: with a second factor, they carry the code of the
\* window of that time.
C22_ProbeCredentialsFresh ==
    api.call.name = "check_auth"
    => \A j \in HeaderRequests :
          api.call.requests[j].headers
             = _get_auth_headers(api.h.username, api.h.password, api.h.secret, api.call.t)

\* C24: logout on a handle without a token returns True, makes no request
\* and changes nothing; with a token it makes one request, clears the token
\* and returns True when the device answers 200, and keeps the token and
\* returns False on any other answer; so a logout that follows a successful
\* one returns True without a request.
C24_LogoutIdempotent ==
    [][\A r \in Resp :
          ApiLogout(r)
          => LET h == api.h
                 c == api'.call
             IN  /\ ~h.auth_token
                       => c.ret = PyBool(TRUE) /\ c.requests = <<>> /\ api'.h = h
                 /\ h.auth_token
                       => /\ Len(c.requests) = 1
                          /\ r = "ok" => /\ c.ret = PyBool(TRUE)
                                         /\ api'.h = [h EXCEPT !.auth_token = FALSE]
                          /\ r = "fail" => c.ret = PyBool(FALSE) /\ api'.h = h
                          /\ r = "raise" => c.exc /\ api'.h = h
                 /\ ( api.call.name = "logout" /\ api.call.ret = PyBool(TRUE) )
                       => c.ret = PyBool(TRUE) /\ c.requests = <<>>
      ]_vars

\* A logout that made no request and returned True followed a logout that
\* the device answered with 200.
C24_Witness ==
    /\ api.call.name = "logout"
    /\ api.call.requests = <<>> /\ api.call.ret = PyBool(TRUE)
    /\ api.prev = <<"logout", PyBool(TRUE), 1>>

(***************************************************************************)
(* The end of a pooled connection (checked under Spec).                    *)
(***************************************************************************)
\* C23: a handle stops being the pooled entry of its key only in a
\* close_connection, close_all_connections or clean_unused_connections call
\* that called logout on it.
C23_DroppedOnlyAfterLogout ==
    [][\A i \in PoolIndexes :
          LET k == connections[i].key
              old == connections[i].val.id
          IN  ( ~DictHas(connections', k) \/ DictGet(connections', k).id # old )
              => /\ op'.name \in TeardownNames
                 /\ CallsOn(op', "logout", old) # {}
      ]_vars

(***************************************************************************)
(* Properties of the pikvm_msd module (checked under SpecMSD).             *)
(***************************************************************************)
\* The calls of the run, by position.
ModCalls == IF mod.pc = "idle" THEN {} ELSE 1..Len(mod.calls)

\* The image name a state=present run works on.
PresentImage ==
    IF mod.params.image_name # ""
    THEN mod.params.image_name
    ELSE basename(IF mod.params.src # "" THEN mod.params.src ELSE mod.params.remote_src)

\* C25: in check mode the module issues no state-changing device call,
\* whatever the state parameter and the state of the device: it only reads
\* the MSD state, and the device is as it was.
C25_CheckModeReadsOnly ==
    ( mod.pc = "ended" /\ mod.module = "pikvm_msd" /\ mod.params.check_mode )
    => /\ \A j \in ModCalls : mod.calls[j].f \notin StateChanging
       /\ \A j \in ModCalls : mod.calls[j] = get_msd_state
       /\ msd = mod.before

\* A check-mode run with state=absent found the image connected in the
\* drive and reported a change after reading the state only.
C25_Witness ==
    /\ mod.pc = "ended" /\ mod.module = "pikvm_msd" /\ mod.params.check_mode
    /\ mod.params.state = "absent"
    /\ mod.before.drive.connected /\ mod.before.drive.image = mod.params.image_name
    /\ mod.changed /\ mod.calls = <<get_msd_state>>

\* A state=present run that got a client and a source, the image being in
\* the storage of the device.
C26_Case ==
    /\ mod.pc = "ended" /\ mod.module = "pikvm_msd" /\ mod.authenticated
    /\ mod.params.state = "present"
    /\ mod.params.src # "" \/ mod.params.remote_src # ""
    /\ mod.params.src # "" => mod.params.src_isfile
    /\ PresentImage \in mod.before.images

C26_Uploads == {j \in ModCalls : mod.calls[j].f \in {"upload_msd_image", "upload_msd_remote"}}

C26_Removes == {j \in ModCalls : mod.calls[j].f = "remove_msd_image"}

\* C26: state=present with the image already on the device.  force=false:
\* no remove and no upload call, changed is false.  force=true, not check
\* mode: the image is removed before the upload is issued, and the drive is
\* disconnected before the removal when it is connected with that image; a
\* run in which no call fails makes exactly these calls.
C26_PresentExisting ==
    C26_Case
    => LET name == PresentImage
           in_use == mod.before.drive.connected /\ mod.before.drive.image = name
           upload == IF mod.params.src # "" THEN upload_msd_image(name)
                     ELSE upload_msd_remote(name)
       IN  /\ ~mod.params.force
                => C26_Uploads = {} /\ C26_Removes = {} /\ ~mod.changed
           /\ ( mod.params.force /\ ~mod.params.check_mode )
                => /\ \A u \in C26_Uploads :
                         \E r \in C26_Removes : r < u /\ mod.calls[r] = remove_msd_image(name)
                   /\ in_use => \A r \in C26_Removes :
                                   \E d \in ModCalls : d < r /\ mod.calls[d] = connect_msd(FALSE)
                   /\ mod.fail_at = 0
                         => mod.calls = <<get_msd_state>>
                                        \o (IF in_use THEN <<connect_msd(FALSE)>> ELSE <<>>)
                                        \o <<remove_msd_image(name), upload, get_msd_state>>

\* A forced download replaced the image that was connected in the drive:
\* disconnect, remove, upload.
C26_Witness ==
    /\ C26_Case
    /\ mod.params.force /\ ~mod.params.check_mode /\ mod.fail_at = 0
    /\ mod.params.remote_src # ""
    /\ mod.before.drive.connected /\ mod.before.drive.image = PresentImage
    /\ Len(mod.calls) = 5 /\ mod.changed

(***************************************************************************)
(* The singletons under threads (checked under SpecSingleton).             *)
(***************************************************************************)
\* C21: at every moment, with constructor calls of several threads in
\* progress, each class has created at most one object, exactly one once
\* the module is imported, and no __init__ has assigned the maps of an
\* object whose maps were assigned before.
C21_OneInstanceNeverReset ==
    \A c \in Classes :
        /\ sg.created[c] <= 1
        /\ sg.instance[c] \in {0, 1}
        /\ sg.resets[c] = 0
        /\ Imported => sg.created[c] = 1 /\ sg.instance[c] = 1 /\ sg.initialized[c]
        /\ sg.maps[c] = "used" => sg.initialized[c]

\* Two threads are inside the constructor of one class, one of them past
\* __new__, while the maps of the instance hold an entry.
C21_Witness ==
    \E c \in Classes, t, u \in SgThreads :
        /\ t # u /\ sg.cls[t] = c /\ sg.cls[u] = c
        /\ sg.pc[t] = "init" /\ sg.pc[u] \in {"new", "init"}
        /\ sg.maps[c] = "used"

(***************************************************************************)
(* get_connection under threads (checked under SpecThreads).               *)
(***************************************************************************)
\* C30: when two threads have each made one plain get_connection call for
\* the key, both having found it not pooled, and both calls have returned,
\* one handle was constructed and both callers hold the pooled handle.
C30_OneHandleForConcurrentCalls ==
    ( /\ thr.started = 2
      /\ \A t \in Threads :
            /\ thr.local[t].pc = "done" /\ ~thr.local[t].exc
            /\ ~thr.local[t].force_new /\ ~thr.local[t].pooled_at_entry )
    => /\ thr.made = 1
       /\ thr.logins <= 1
       /\ \A t \in Threads :
             thr.local[t].ret = DictGet(connections, KeyOf(ThreadIdentity)).id

(***************************************************************************)
(* get_connection that raises (checked under Spec).                        *)
(***************************************************************************)
\* The Python objects pooled, key by key in the order of the dict.
PooledIds(conns) == [i \in 1..Len(conns) |-> <<conns[i].key, conns[i].val.id>>]

\* C32: a get_connection that raises leaves the pool map and the last-used
\* map as they were before the call: the same keys in the same order, each
\* holding the same handle object built for the same identity, and the same
\* timestamps; in particular the pooled handle that failed re-validation is
\* still the one pooled under its key.
C32_RaiseLeavesMaps ==
    [][( Called("get_connection") /\ op'.exc )
       => /\ PooledIds(connections') = PooledIds(connections)
          /\ \A i \in 1..Len(connections) :
                IdentOf(connections'[i].val) = IdentOf(connections[i].val)
          /\ last_used' = last_used
          /\ op'.calls[1].m = "check_auth"
                => /\ DictHas(connections', KeyOf(op'.ident))
                   /\ DictGet(connections', KeyOf(op'.ident)).id = op'.calls[1].h
      ]_vars

\* A pooled handle failed its probe and its re-login, the probe of the handle
\* constructed in its place raised, and the old handle is still pooled
\* beside the entry of another key.
C32_Witness ==
    /\ op.name = "get_connection" /\ op.exc
    /\ Len(op.calls) = 4
    /\ op.calls[1].m = "check_auth" /\ op.calls[1].r = "false"
    /\ op.calls[2].m = "login" /\ op.calls[2].r = "false"
    /\ op.calls[3].m = "PiKVMAPI" /\ op.calls[3].h # op.calls[1].h
    /\ op.calls[4].m = "check_auth" /\ op.calls[4].r = "raise"
    /\ DictGet(connections, KeyOf(op.ident)).id = op.calls[1].h
    /\ Len(connections) = 2

(***************************************************************************)
(* The arguments of get_connection that are not part of the key (checked   *)
(* under SpecCreds).                                                       *)
(***************************************************************************)
\* What get_connection(force_new=False) for identity I can do in the current
\* state when the probe of the pooled handle reports authenticated.
ReusedBy(I) ==
    {o \in get_connection(connections, last_used, now, now, I, FALSE) :
        o.calls[1].m = "check_auth" /\ o.calls[1].r = "true"}

\* C33: whenever a handle is pooled, two get_connection(force_new=False)
\* calls that differ only in password, secret and validate_certs, and whose
\* probe of the pooled handle reports authenticated, return the same handle,
\* the pooled one, and leave it pooled; the handle keeps the password,
\* secret, validate_certs and header credentials it was created with.
C33_ReuseIgnoresCredentials ==
    LET reused == [I \in CredIdentities |-> ReusedBy(I)]
    IN  \A I1 \in CredIdentities, I2 \in CredIdentities :
           ( KeyOf(I1) = KeyOf(I2) /\ DictHas(connections, KeyOf(I1)) )
           => LET pooled == DictGet(connections, KeyOf(I1))
              IN  /\ reused[I1] # {}
                  /\ \A o1 \in reused[I1], o2 \in reused[I2] :
                        /\ ~o1.exc /\ o1.ret = pooled.id
                        /\ o1.ret = o2.ret
                        /\ PooledIds(o1.connections) = PooledIds(connections)
                        /\ PooledIds(o2.connections) = PooledIds(connections)
                        /\ IdentOf(DictGet(o1.connections, KeyOf(I1))) = IdentOf(pooled)
                        /\ DictGet(o1.connections, KeyOf(I1)).headers = pooled.headers

\* A call whose password, secret and validate_certs all differ from those of
\* the pooled handle was given that handle after its probe alone.
C33_Witness ==
    /\ op.name = "get_connection" /\ ~op.exc
    /\ Len(op.calls) = 1 /\ op.calls[1].m = "check_auth" /\ op.calls[1].r = "true"
    /\ LET pooled == DictGet(connections, KeyOf(op.ident))
       IN  /\ pooled.id = op.ret
           /\ pooled.password # op.ident.password
           /\ pooled.secret # op.ident.secret
           /\ pooled.validate_certs # op.ident.validate_certs

(***************************************************************************)
(* Teardown calls made by two threads at once (checked under SpecTeardown).*)
(***************************************************************************)
TdDone == \A t \in Threads : td.local[t].pc = "done"

\* What a finished teardown call counted: the int it returned, 1 for a
\* close_connection that returned True.
TdCounted(t) ==
    LET l == td.local[t]
    IN  IF l.exc THEN 0
        ELSE IF l.method = "close_connection" THEN (IF l.ret[2] THEN 1 ELSE 0)
        ELSE l.ret[2]

\* C31: when the teardown calls of two threads have all finished, none of
\* them raised, the entries they counted are the entries removed from the
\* pool, one count for every removed entry, and the pool map and the
\* last-used map have the same keys.
C31_ConcurrentTeardown ==
    TdDone
    => /\ \A t \in Threads : ~td.local[t].exc
       /\ TdCounted("t1") + TdCounted("t2") = td.removed
       /\ td.removed = td.initial - Len(connections)
       /\ DictKeySet(connections) = DOMAIN last_used

(***************************************************************************)
(* pikvm_msd, state=connected and state=absent (checked under SpecMSD).    *)
(***************************************************************************)
\* The state-changing calls of the run, in the order they were issued.
ChangingCalls == SelectSeq(mod.calls, LAMBDA c : c.f \in StateChanging)

IsPrefix(s, t) == Len(s) <= Len(t) /\ s = SubSeq(t, 1, Len(s))

\* A state=connected run, not in check mode, that got a client, for an image
\* that is in the storage of the device.
C34_Case ==
    /\ mod.pc = "ended" /\ mod.module = "pikvm_msd" /\ mod.authenticated
    /\ mod.params.state = "connected" /\ ~mod.params.check_mode
    /\ mod.params.image_name \in mod.before.images

\* The drive read at the start differs from what is requested in image,
\* media type or (for flash) read-only mode.
C34_ChangeNeeded ==
    LET cur == mod.before.drive
        is_cdrom == mod.params.media_type = "cdrom"
    IN  \/ cur.image # mod.params.image_name
        \/ cur.cdrom # is_cdrom
        \/ ~is_cdrom /\ cur.rw = mod.params.read_only

\* C34: state=connected, not check mode.  When a configuration change is
\* needed and the drive was connected at the start, the state-changing calls
\* are connect_msd(false), set_msd_params, connect_msd(true) in that order
\* (all three when no call fails, a prefix of them otherwise), and
\* set_msd_params is never issued before the disconnect; when the drive is
\* already connected with the requested image, media type and read-only mode
\* no state-changing call is issued and changed is false.
C34_DisconnectConfigureConnect ==
    C34_Case
    => LET cur == mod.before.drive
           is_cdrom == mod.params.media_type = "cdrom"
           params == set_msd_params(mod.params.image_name, is_cdrom,
                                    IF is_cdrom THEN "None"
                                    ELSE BoolStr(~mod.params.read_only))
           order == <<connect_msd(FALSE), params, connect_msd(TRUE)>>
       IN  /\ ( C34_ChangeNeeded /\ cur.connected )
                => /\ IsPrefix(ChangingCalls, order)
                   /\ mod.fail_at = 0 => ChangingCalls = order
                   /\ \A j \in ModCalls :
                         mod.calls[j].f = "set_msd_params"
                         => \E d \in 1..(j - 1) : mod.calls[d] = connect_msd(FALSE)
           /\ ( cur.connected /\ cur.image = mod.params.image_name
                /\ cur.cdrom = is_cdrom /\ cur.rw = ~mod.params.read_only )
                => ChangingCalls = <<>> /\ ~mod.changed

\* A connected drive was given another image: disconnect, configure,
\* connect, and the run reports a change.
C34_Witness ==
    /\ C34_Case /\ C34_ChangeNeeded
    /\ mod.before.drive.connected
    /\ mod.before.drive.image # mod.params.image_name
    /\ mod.fail_at = 0 /\ Len(mod.calls) = 5 /\ mod.changed
    /\ mod.calls[3].f = "set_msd_params"

\* A state=absent run, not in check mode, that got a client and an image name.
C35_Case ==
    /\ mod.pc = "ended" /\ mod.module = "pikvm_msd" /\ mod.authenticated
    /\ mod.params.state = "absent" /\ ~mod.params.check_mode
    /\ mod.params.image_name # ""

\* C35: state=absent, not check mode.  If the image is not in storage no
\* state-changing call is issued and changed is false.  If it is in storage
\* the state-changing calls are remove_msd_image, once, preceded by
\* connect_msd(false) exactly when the drive is connected with that image
\* selected: these calls when no call fails, a prefix of them when one does,
\* and never a second removal or a disconnect of a drive holding another
\* image.
C35_RemoveOnce ==
    C35_Case
    => LET name == mod.params.image_name
           in_use == mod.before.drive.connected /\ mod.before.drive.image = name
           order == (IF in_use THEN <<connect_msd(FALSE)>> ELSE <<>>)
                    \o <<remove_msd_image(name)>>
       IN  /\ name \notin mod.before.images
                => ChangingCalls = <<>> /\ ~mod.changed
           /\ name \in mod.before.images
                => /\ IsPrefix(ChangingCalls, order)
                   /\ mod.fail_at = 0
                         => /\ ChangingCalls = order
                            /\ mod.changed /\ name \notin msd.images
                   /\ Cardinality({j \in ModCalls : mod.calls[j].f = "remove_msd_image"}) <= 1
                   /\ (\E j \in ModCalls : mod.calls[j] = connect_msd(FALSE)) => in_use

\* The image connected in the drive was removed: disconnect, then removal.
C35_Witness ==
    /\ C35_Case
    /\ mod.before.drive.connected /\ mod.before.drive.image = mod.params.image_name
    /\ mod.fail_at = 0
    /\ mod.calls = <<get_msd_state, connect_msd(FALSE),
                     remove_msd_image(mod.params.image_name), get_msd_state>>
    /\ mod.params.image_name \notin msd.images

(***************************************************************************)
(* pikvm_msd_upload (checked under SpecUpload).                            *)
(***************************************************************************)
\* The run ended at one of its local precondition checks: the source is not
\* a regular file, or the free space of the device is smaller than the file.
UploadPreconditionFailed ==
    /\ upl.pc = "ended" /\ upl.failed
    /\ \/ Contains("does not exist or is not a regular file", upl.msg)
       \/ Contains("Not enough space on PiKVM storage", upl.msg)

\* C36: a run of pikvm_msd_upload that fails a local precondition check has
\* issued no state-changing device call, and an image of the same name that
\* was on the device before the run is still there.
C36_FailedPreconditionChangesNothing ==
    UploadPreconditionFailed
    => /\ \A j \in 1..Len(upl.calls) : upl.calls[j].f \notin StateChanging
       /\ upload_image_name(upl.params) \in upl.before.images
             => upload_image_name(upl.params) \in msd.images

(***************************************************************************)
(* The remount become script (checked under SpecShell).                    *)
(***************************************************************************)
\* C37: when the script has exited, every mount point that was remounted
\* read-write was given a read-only remount; and once a read-write remount
\* has failed the wrapped command is never run and the exit status is 1.
\* While the script runs, the mount points still owed a read-only remount
\* are all in the list the current loop works through.
C37_EveryRemountReverted ==
    /\ sh.pc = "exited" => sh.rw_ok \subseteq sh.ro_attempted
    /\ sh.rw_failed => ~sh.cmd_run
    /\ ( sh.pc = "exited" /\ sh.rw_failed ) => sh.status = 1
    /\ sh.pc \in {"rollback", "revert"}
          => sh.rw_ok \ sh.ro_attempted = {sh.remaining[j] : j \in 1..Len(sh.remaining)}

\* The remount of / succeeded and that of /boot failed: / was remounted
\* read-only, the command did not run, the script exited 1.
C37_Witness ==
    /\ sh.pc = "exited" /\ sh.rw_failed
    /\ sh.rw_ok = {"/"} /\ sh.ro_attempted = {"/"}
    /\ ~sh.cmd_run /\ sh.status = 1

\* C38: when no read-write remount failed, the script exits with the exit
\* status of the wrapped command, except with 1 when the command exited 0
\* and a remount back to read-only failed.
C38_ExitStatus ==
    ( sh.pc = "exited" /\ ~sh.rw_failed )
    => /\ sh.cmd_run
       /\ sh.status = IF sh.ret = 0 /\ sh.ro_failed # {} THEN 1 ELSE sh.ret
       /\ sh.ret # 0 => sh.status = sh.ret

\* The command exited 2 and the revert of a mount point failed: the script
\* exits 2.
C38_Witness ==
    /\ sh.pc = "exited" /\ ~sh.rw_failed /\ sh.cmd_run
    /\ sh.ret = 2 /\ sh.ro_failed # {} /\ sh.status = 2

====
